---- MODULE Spec2Model ----
(***************************************************************************)
(* A model of the query execution and metrics materialization engine of    *)
(* sql_exporter: label helpers (labels.go), the query executor (query.go), *)
(* the collector (exporter.go), the per-connection job runner, Job.Run and *)
(* Job.runOnce (job.go), the clocks of the jobs (exporter.go) and the      *)
(* scrape path that pulls the triggers (handlerFunc).                      *)
(***************************************************************************)
EXTENDS Integers, Sequences, FiniteSets, TLC

VARIABLES
  redactedLabels,   \* labels.go: the process-wide redact list
  labelNames,       \* result of GetLabelsForSQLGauges / GetLabelsForFailedScrapes
  labelValues,      \* result of AppendLabelValuesForSQLGauges / FilteredLabelValuesForFailedScrapes
  labelCall,        \* which of the two helper pairs was applied last ("none" before)
  queries,          \* Job.Queries after Job.Init
  metrics,          \* Query.metrics: the cache, per query and connection
  writing,          \* the map store q.metrics[conn] = metrics while it is in progress
  mutex,            \* Query.Mutex: the connection activity holding it, "" when free
  failedScrapes,    \* sql_exporter_last_scrape_failed per (connection, query); -1: no series yet
  queryCounter,     \* sql_exporter_queries_total per query name of the job
  failedQueryCounter, \* sql_exporter_query_failures_total per query name of the job
  call,             \* per connection: the Run / RunIterator call in progress, and its locals
  emitted,          \* what the last Collect sent to the channel, per query and connection
  stored,           \* history: the vectors executions stored, per query and connection
  fatal,            \* the Go runtime has ended the process (concurrent map access, a panic)
  runner,           \* per connection: the position of Job.runOnceConnection and its locals
  iteratorValues,   \* connection.iteratorValues, per connection (<<>> is nil)
  sent,             \* history: per connection and query, the SQL texts its last call sent
  jobCfg,           \* the Job whose Run is modelled: Interval, CronSchedule.schedule, conns
  run,              \* the position of Job.Run / backoff.Retry / Job.runOnce and their locals
  deadline,         \* the context of runOnce: "none", "pending" or "elapsed"
  yaml,             \* the jobs of the configuration file: interval and cron_schedule keys
  jobs,             \* cfg.Jobs as config.Read returns them (<<>> before)
  exporter,         \* NewExporter: its position, exp.jobs, the entries of exp.cronScheduler
  loops,            \* per job: the position of its ExecutePeriodically goroutine ("none": not started)
  firings,          \* per job: the calls of Job.Run by the cron scheduler that have not returned
  workers,          \* per job: the receiver of job.Trigger that runs the job and sends job.Done
  scrapes,          \* per HTTP request: the position of handlerFunc and its locals
  runsLog,          \* history: per job, the calls of Job.Run by caller, and the calls that returned
  pool,             \* the one open handle of the connection pool: the activity that has it, "" when free
  order,            \* history: the activities in the order of their SQL executions and of their cache stores
  connection,       \* the connection record connect is called on: driver, url, conn, tokenExpirationTime, ...
  now,              \* the wall clock, in minutes since the registration of the record
  trace,            \* history: the calls of connect on the record and the statements sent on its handles
  crash,            \* why the process has ended ("" while it runs)
  described,        \* the descriptors the last Describe sent to the channel
  reg,              \* Job.updateConnections: j.Connections, the position of its loop, j.conns
  healthz,          \* the /healthz handler: its position, the visits it made, its answer
  activities        \* per goroutine that calls connect on the record: its position and locals

labelVars == <<redactedLabels, labelNames, labelValues, labelCall>>

queryVars == <<queries, metrics, writing, mutex, failedScrapes, queryCounter,
               failedQueryCounter, call, emitted, stored, fatal>>

jobVars == <<runner, iteratorValues, sent>>

runVars == <<jobCfg, run, deadline>>

schedVars == <<yaml, jobs, exporter, loops, firings, workers, scrapes, runsLog>>

\* the variables above the connection activities
cronVars == <<pool, order>>

outerVars == <<runVars, schedVars, cronVars>>

\* the connection record under connect, Describe, registration and /healthz
setupVars == <<connection, now, trace, crash, described, reg, healthz, activities>>

vars == <<labelVars, queryVars, jobVars, outerVars, setupVars>>

----------------------------------------------------------------------------
(* Bounds of the model.                                                    *)

\* rows the database returns during one Run / RunIterator call
MaxRows == 2

\* iterator values of one run
MaxIvs == 2

\* invocations of Job.runOnceConnection per connection
MaxAttempts == 2

----------------------------------------------------------------------------
(* Generic sequence helpers.                                               *)

Range(s) == {s[i] : i \in 1..Len(s)}

RECURSIVE FilterSeq(_, _)
\* the elements of s, in order, that are not members of drop
FilterSeq(s, drop) ==
  IF s = <<>> THEN <<>>
  ELSE IF Head(s) \in drop THEN FilterSeq(Tail(s), drop)
       ELSE <<Head(s)>> \o FilterSeq(Tail(s), drop)

----------------------------------------------------------------------------
(* The connection and query the label helpers are applied to.              *)

\* connection{driver, host, database, user}: the label-visible fields
Conn1 == [driver |-> "postgres", host |-> "h", database |-> "d", user |-> "u"]

\* a second connection of the job, on another host
Conn2 == [driver |-> "postgres", host |-> "h2", database |-> "d", user |-> "u"]

JobName == "j"

----------------------------------------------------------------------------
(* labels.go                                                               *)

\* standardLabels of GetLabelsForFailedScrapes
FailedScrapesStandardLabels == <<"driver", "host", "database", "user", "sql_job", "query">>

\* standardLabels of GetLabelsForSQLGauges
SQLGaugesStandardLabels == <<"driver", "host", "database", "user", "col">>

GetLabelsForFailedScrapes(redacted) == FilterSeq(FailedScrapesStandardLabels, redacted)

GetLabelsForSQLGauges(redacted) == FilterSeq(SQLGaugesStandardLabels, redacted)

AppendLabelValuesForSQLGauges(labels, conn, valueName, redacted) ==
  labels \o <<conn.driver>>
         \o (IF "host" \notin redacted THEN <<conn.host>> ELSE <<>>)
         \o (IF "database" \notin redacted THEN <<conn.database>> ELSE <<>>)
         \o (IF "user" \notin redacted THEN <<conn.user>> ELSE <<>>)
         \o <<valueName>>

FilteredLabelValuesForFailedScrapes(conn, jobName, queryName, redacted) ==
  <<conn.driver>>
         \o (IF "host" \notin redacted THEN <<conn.host>> ELSE <<>>)
         \o (IF "database" \notin redacted THEN <<conn.database>> ELSE <<>>)
         \o (IF "user" \notin redacted THEN <<conn.user>> ELSE <<>>)
         \o <<jobName, queryName>>

----------------------------------------------------------------------------
(* Configuration (config.go): the job, its iterator and its queries.       *)

\* Iterator{SQL, Placeholder, Label}; texts are sequences of characters
Iterator == [SQL |-> <<"i">>, Placeholder |-> <<"K">>, Label |-> "k"]

\* the shared query dictionary (File.Queries)
SharedQueries == [shared |-> <<"s", "h">>]

\* a descriptor that was never built (q.desc == nil)
NilDesc == [nil |-> TRUE, name |-> <<>>, variableLabels |-> <<>>, err |-> FALSE]

\* Query as parsed from the configuration, before Job.Init
ConfigQuery(name, sql, ref, allowZero) ==
  [Name |-> name, Query |-> sql, QueryRef |-> ref, Labels |-> <<"l1">>,
   Values |-> <<"v1", "v2">>, Timestamp |-> "", AllowZeroRows |-> allowZero,
   jobName |-> "", desc |-> NilDesc, nil |-> FALSE]

\* an invalid entry of the query list: a nil *Query
NilQuery == [ConfigQuery("", <<>>, "", FALSE) EXCEPT !.nil = TRUE]

\* prometheus.NewDesc: the descriptor records an error when a label name
\* occurs twice among the variable labels and the constant label sql_job
NewDesc(name, variableLabels) ==
  [nil |-> FALSE, name |-> name, variableLabels |-> variableLabels,
   err |-> \/ \E i, k \in 1..Len(variableLabels) : i # k /\ variableLabels[i] = variableLabels[k]
           \/ "sql_job" \in Range(variableLabels)]

\* the label order the descriptor is built with (Job.Init: append(q.Labels, ...))
DescLabels(labels) == labels \o <<"driver", "host", "database", "user", "col">>

\* a variant that builds a descriptor for a query without SQL as well
InitQuery_DescribesAll(q, jobName, iterator, dict) ==
  LET sql == IF q.Query = <<>> /\ q.QueryRef # "" /\ q.QueryRef \in DOMAIN dict
             THEN dict[q.QueryRef] ELSE q.Query
      labels == IF iterator.Label # "" THEN Append(q.Labels, iterator.Label) ELSE q.Labels
  IN IF q.nil THEN q
     ELSE [q EXCEPT !.jobName = jobName, !.Query = sql, !.Labels = labels,
                    !.desc = NewDesc(<<"sql_", q.Name>>, DescLabels(labels))]

\* Job.Init, for one query of the job
InitQuery(q, jobName, iterator, dict) ==
  LET sql == IF q.Query = <<>> /\ q.QueryRef # "" /\ q.QueryRef \in DOMAIN dict
             THEN dict[q.QueryRef] ELSE q.Query
      q1 == [q EXCEPT !.jobName = jobName, !.Query = sql]
  IN IF q.nil THEN q
     ELSE IF sql = <<>> THEN q1
     ELSE LET labels == IF iterator.Label # "" THEN Append(q.Labels, iterator.Label)
                        ELSE q.Labels
          IN [q1 EXCEPT !.Labels = labels,
                        !.desc = NewDesc(<<"sql_", q.Name>>, DescLabels(labels))]

\* Job.Init over the job's query list
JobInit(qs, jobName, iterator, dict) ==
  [i \in 1..Len(qs) |-> InitQuery(qs[i], jobName, iterator, dict)]

----------------------------------------------------------------------------
(* Result rows: a row maps column names to raw driver values (MapScan); a  *)
(* raw value is a Go type tag and a payload.                               *)

Absent == [t |-> "absent", v |-> ""]

Columns == {"v1", "v2", "l1", "k"}

\* res[col] with its ok flag: Absent when the row carries no such column
Lookup(res, col) == IF col \in DOMAIN res THEN res[col] ELSE Absent

\* the kinds updateMetric converts with float64(f)
NumericKinds == {"int", "int32", "int64", "uint", "uint32", "uint64", "float32", "float64"}

\* the kinds updateMetric parses with strconv.ParseFloat, and accepts as label text
TextKinds == {"[]uint8", "string"}

\* strconv.ParseFloat on the payloads of the model: defined on numerals only
FloatOf == ("0" :> 0) @@ ("1" :> 1) @@ ("2" :> 2)

GoodRow == [scanErr |-> FALSE,
            cols |-> ("v1" :> [t |-> "int64", v |-> "1"]) @@ ("v2" :> [t |-> "string", v |-> "2"])
                     @@ ("l1" :> [t |-> "string", v |-> "x"])]

\* v2 is text that is no number: one of the two values coerces; the result
\* set also has a column named like the iterator label
PartialRow == [scanErr |-> FALSE,
               cols |-> ("v1" :> [t |-> "float64", v |-> "2"]) @@ ("v2" :> [t |-> "string", v |-> "n/a"])
                        @@ ("l1" :> [t |-> "[]uint8", v |-> "y"])
                        @@ ("k" :> [t |-> "string", v |-> "z"])]

\* no value coerces: text that is no number, and NULL
NoValueRow == [scanErr |-> FALSE,
               cols |-> ("v1" :> [t |-> "[]uint8", v |-> "n/a"]) @@ ("v2" :> [t |-> "nil", v |-> ""])
                        @@ ("l1" :> [t |-> "string", v |-> "x"])]

\* the label column is an integer
BadLabelRow == [scanErr |-> FALSE,
                cols |-> ("v1" :> [t |-> "int64", v |-> "1"]) @@ ("v2" :> [t |-> "int64", v |-> "2"])
                         @@ ("l1" :> [t |-> "int64", v |-> "1"])]

\* the result set has none of the declared columns
AbsentRow == [scanErr |-> FALSE, cols |-> [c \in {"other"} |-> [t |-> "string", v |-> "z"]]]

\* rows.MapScan returns an error
ScanFailRow == [scanErr |-> TRUE, cols |-> [c \in {"other"} |-> [t |-> "string", v |-> "z"]]]

Rows == {GoodRow, PartialRow, NoValueRow, BadLabelRow, AbsentRow, ScanFailRow}

----------------------------------------------------------------------------
(* query.go: updateMetric and updateMetrics.                               *)

\* updateMetric, the switch on the raw value (lines 197-237)
CoerceValue(res, valueName) ==
  LET i == Lookup(res, valueName) IN
  IF i.t = "absent" THEN [ok |-> TRUE, value |-> 0]
  ELSE IF i.t \in NumericKinds THEN [ok |-> TRUE, value |-> FloatOf[i.v]]
  ELSE IF i.t \in TextKinds
       THEN IF i.v \in DOMAIN FloatOf THEN [ok |-> TRUE, value |-> FloatOf[i.v]]
            ELSE [ok |-> FALSE, value |-> 0]
  ELSE [ok |-> FALSE, value |-> 0]

RECURSIVE LabelValues(_, _, _, _)
\* updateMetric, the loop over q.Labels (lines 240-264)
LabelValues(labels, res, iv, il) ==
  IF labels = <<>> THEN [ok |-> TRUE, vals |-> <<>>]
  ELSE LET label == Head(labels)
           i == Lookup(res, label)
           rest == LabelValues(Tail(labels), res, iv, il)
       IN IF label = il /\ iv # ""
          THEN [ok |-> rest.ok, vals |-> <<iv>> \o rest.vals]
          ELSE IF i.t = "absent" THEN [ok |-> rest.ok, vals |-> <<"">> \o rest.vals]
          ELSE IF i.t \in TextKinds THEN [ok |-> rest.ok, vals |-> <<i.v>> \o rest.vals]
          ELSE [ok |-> FALSE, vals |-> <<>>]

\* a variant that appends the database before the host
FixedLabelValues_DatabaseFirst(conn, valueName) ==
  <<conn.driver, conn.database, conn.host, conn.user, valueName>>

\* the five connection labels appended after the declared ones (lines 265-269)
FixedLabelValues(conn, valueName) ==
  <<conn.driver, conn.host, conn.database, conn.user, valueName>>

\* updateMetric: [err, m], m the const metric built for one value of one row
updateMetric(q, conn, res, valueName, iv, il) ==
  LET co == CoerceValue(res, valueName)
      lv == LabelValues(q.Labels, res, iv, il)
      labels == lv.vals \o FixedLabelValues(conn, valueName)
      tsRaw == Lookup(res, q.Timestamp)
      ts == IF q.Timestamp # "" /\ tsRaw.t = "time.Time" THEN tsRaw.v ELSE ""
      \* prometheus.NewConstMetric: the descriptor's error, or a label count mismatch
      constErr == q.desc.err \/ Len(labels) # Len(q.desc.variableLabels)
  IN [err |-> ~co.ok \/ ~lv.ok \/ constErr,
      m |-> [desc |-> q.desc.name, value |-> co.value, labels |-> labels, ts |-> ts]]

RECURSIVE CollectMetrics(_, _, _, _, _, _)
\* updateMetrics, the loop over q.Values: the metrics of the values that did not fail
CollectMetrics(q, conn, res, values, iv, il) ==
  IF values = <<>> THEN <<>>
  ELSE LET r == updateMetric(q, conn, res, Head(values), iv, il)
           rest == CollectMetrics(q, conn, res, Tail(values), iv, il)
       IN IF r.err THEN rest ELSE <<r.m>> \o rest

\* a variant that fails the row as soon as one declared value fails
updateMetrics_AllOrNothing(q, conn, res, iv, il) ==
  IF Len(q.Values) = 0 THEN [err |-> FALSE, ms |-> <<>>]
  ELSE LET ms == CollectMetrics(q, conn, res, q.Values, iv, il)
       IN IF Len(ms) < Len(q.Values) THEN [err |-> TRUE, ms |-> <<>>]
          ELSE [err |-> FALSE, ms |-> ms]

\* updateMetrics: [err, ms]
updateMetrics(q, conn, res, iv, il) ==
  IF Len(q.Values) = 0 THEN [err |-> FALSE, ms |-> <<>>]
  ELSE LET ms == CollectMetrics(q, conn, res, q.Values, iv, il)
       IN IF Len(ms) < 1 THEN [err |-> TRUE, ms |-> <<>>]
          ELSE [err |-> FALSE, ms |-> ms]

----------------------------------------------------------------------------
(* query.go: HasIterator and ReplaceIterator, on texts as character        *)
(* sequences.                                                              *)

\* whether text s starts with text p
HasPrefix(s, p) == Len(p) <= Len(s) /\ SubSeq(s, 1, Len(p)) = p

\* strings.Contains
Contains(s, sub) == \E k \in 0..(Len(s) - Len(sub)) : SubSeq(s, k + 1, k + Len(sub)) = sub

RECURSIVE ReplaceAll(_, _, _)
\* strings.NewReplacer(old, new).Replace(s), old not empty
ReplaceAll(s, old, new) ==
  IF s = <<>> THEN <<>>
  ELSE IF HasPrefix(s, old) THEN new \o ReplaceAll(SubSeq(s, Len(old) + 1, Len(s)), old, new)
  ELSE <<Head(s)>> \o ReplaceAll(Tail(s), old, new)

\* fmt.Sprint("{{", ph, "}}")
Token(ph) == <<"{", "{">> \o ph \o <<"}", "}">>

HasIterator(q, ph) == Contains(q.Query, ph)

ReplaceIterator(q, ph, iv) == ReplaceAll(q.Query, Token(ph), <<iv>>)

----------------------------------------------------------------------------
(* The query executor (query.go: Run, RunIterator) as a process per        *)
(* connection. A call blocks in the driver at Queryx and at rows.Next; the *)
(* map store at the end is a multi-word write under q.Lock().              *)

Conns == {"c1"}

\* the calls of Job.Run by the cron scheduler whose activities share connection c1
Firings == {"f1", "f2"}

\* the connection an activity runs on: the activities runOnce starts are
\* named by their connection
ConnKey(c) == IF c \in Firings THEN "c1" ELSE c

\* the label-visible fields of the connection of an activity
ConnOf(c) == IF ConnKey(c) = "c2" THEN Conn2 ELSE Conn1

QIdx == 1..Len(queries)

\* the label values of the two counters: the job's query names and the empty name
CounterKeys == {queries[i].Name : i \in QIdx} \cup {""}

Inc(counter, key) == [counter EXCEPT ![key] = @ + 1]

Min(a, b) == IF a <= b THEN a ELSE b

\* no call in progress on the connection
NoCall == [pc |-> "none", q |-> 0, kind |-> "", ph |-> <<>>, ivs |-> <<>>, il |-> "",
           i |-> 0, buf |-> <<>>, updated |-> 0, nrows |-> 0, err |-> "",
           sqlReached |-> FALSE, cache0 |-> <<>>, failed0 |-> 0, rowsSeen |-> <<>>,
           sent |-> <<>>]

NoStore == [on |-> FALSE, vec |-> <<>>]

\* the call returns err ("" is nil)
Returned(cl, err) == [cl EXCEPT !.pc = "returned", !.err = err]

\* failedScrapes.WithLabelValues(conn..., q.jobName, q.Name).Set(v)
SetFailed(gauge, qi, c, v) == [gauge EXCEPT ![qi][ConnKey(c)] = v]

\* a variant that does not count the attempt
Enter_NoCount(c, qi, kind, ph, ivs, il) ==
  LET q == queries[qi]
      cl == [NoCall EXCEPT !.q = qi, !.kind = kind, !.ph = ph, !.ivs = ivs, !.il = il,
                           !.i = 1, !.cache0 = metrics[qi][ConnKey(c)],
                           !.failed0 = failedQueryCounter[q.Name]]
  IN /\ ~fatal
     /\ call[c].pc = "none"
     /\ IF q.desc.nil \/ q.Query = <<>>
        THEN /\ failedQueryCounter' = Inc(failedQueryCounter, q.Name)
             /\ call' = [call EXCEPT ![c] = Returned(cl, "metadata")]
        ELSE /\ call' = [call EXCEPT ![c] = [cl EXCEPT !.pc = "query"]]
             /\ UNCHANGED failedQueryCounter
     /\ UNCHANGED <<queries, metrics, writing, mutex, failedScrapes, queryCounter, emitted,
                    stored, fatal>>

\* Run lines 15-31 and RunIterator lines 84-100: count the attempt, check the metadata
Enter(c, qi, kind, ph, ivs, il) ==
  LET q == queries[qi]
      cl == [NoCall EXCEPT !.q = qi, !.kind = kind, !.ph = ph, !.ivs = ivs, !.il = il,
                           !.i = 1, !.cache0 = metrics[qi][ConnKey(c)],
                           !.failed0 = failedQueryCounter[q.Name]]
  IN /\ ~fatal
     /\ call[c].pc = "none"
     /\ queryCounter' = Inc(queryCounter, q.Name)
     /\ IF q.desc.nil \/ q.Query = <<>>
        THEN /\ failedQueryCounter' = Inc(failedQueryCounter, q.Name)
             /\ call' = [call EXCEPT ![c] = Returned(cl, "metadata")]
        ELSE /\ call' = [call EXCEPT ![c] = [cl EXCEPT !.pc = "query"]]
             /\ UNCHANGED failedQueryCounter
     /\ UNCHANGED <<queries, metrics, writing, mutex, failedScrapes, emitted, stored, fatal>>

\* q.Run(conn) is called
StartRun(c, qi) == Enter(c, qi, "Run", <<>>, <<>>, "")

\* q.RunIterator(conn, ph, ivs, il) is called
StartRunIterator(c, qi, ph, ivs, il) == Enter(c, qi, "RunIterator", ph, ivs, il)

\* the SQL text the call sends next
SqlText(cl) ==
  IF cl.kind = "Run" THEN queries[cl.q].Query
  ELSE ReplaceIterator(queries[cl.q], cl.ph, cl.ivs[cl.i])

\* conn.conn.Queryx returns rows (Run line 34, RunIterator line 107)
QueryxOk(c) ==
  /\ ~fatal
  /\ call[c].pc = "query"
  /\ call' = [call EXCEPT ![c].pc = "rows", ![c].sqlReached = TRUE,
                          ![c].sent = Append(@, SqlText(call[c]))]
  /\ UNCHANGED <<queries, metrics, writing, mutex, failedScrapes, queryCounter,
                 failedQueryCounter, emitted, stored, fatal>>

\* a variant that stores the samples converted so far before it returns the error
QueryxErr_StoresPartial(c) ==
  LET cl == call[c] IN
  /\ ~fatal
  /\ cl.pc = "query"
  /\ failedScrapes' = SetFailed(failedScrapes, cl.q, c, 1)
  /\ failedQueryCounter' = Inc(failedQueryCounter, queries[cl.q].Name)
  /\ metrics' = [metrics EXCEPT ![cl.q][ConnKey(c)] = cl.buf]
  /\ call' = [call EXCEPT ![c] = Returned([cl EXCEPT !.sqlReached = TRUE,
                                                     !.sent = Append(@, SqlText(cl))], "sql")]
  /\ UNCHANGED <<queries, writing, mutex, queryCounter, emitted, stored, fatal>>

\* conn.conn.Queryx returns an error (Run lines 35-39, RunIterator lines 108-112)
QueryxErr(c) ==
  LET cl == call[c] IN
  /\ ~fatal
  /\ cl.pc = "query"
  /\ failedScrapes' = SetFailed(failedScrapes, cl.q, c, 1)
  /\ failedQueryCounter' = Inc(failedQueryCounter, queries[cl.q].Name)
  /\ call' = [call EXCEPT ![c] = Returned([cl EXCEPT !.sqlReached = TRUE,
                                                     !.sent = Append(@, SqlText(cl))], "sql")]
  /\ UNCHANGED <<queries, metrics, writing, mutex, queryCounter, emitted, stored, fatal>>

\* a variant that converts every row with the first iterator value
RowIv_FirstValue(cl) == IF cl.kind = "Run" THEN "" ELSE cl.ivs[1]

\* the iterator value and label a row of the call is converted with
RowIv(cl) == IF cl.kind = "Run" THEN "" ELSE cl.ivs[cl.i]

\* one turn of the rows.Next loop (Run lines 46-63, RunIterator lines 115-132)
NextRow(c, row) ==
  LET cl == call[c]
      q == queries[cl.q]
      r == updateMetrics(q, ConnOf(c), row.cols, RowIv(cl), cl.il)
      failed == row.scanErr \/ r.err
      seen == Append(cl.rowsSeen, [row |-> row, iv |-> RowIv(cl), i |-> cl.i])
  IN /\ ~fatal
     /\ cl.pc = "rows"
     /\ cl.nrows < MaxRows
     /\ failedScrapes' = SetFailed(failedScrapes, cl.q, c, IF failed THEN 1 ELSE 0)
     /\ call' = [call EXCEPT ![c] =
                   IF failed THEN [cl EXCEPT !.nrows = @ + 1, !.rowsSeen = seen]
                   ELSE [cl EXCEPT !.nrows = @ + 1, !.rowsSeen = seen,
                                   !.buf = @ \o r.ms, !.updated = @ + 1]]
     /\ UNCHANGED <<queries, metrics, writing, mutex, queryCounter, failedQueryCounter,
                    emitted, stored, fatal>>

\* Run lines 65-73: the rows are exhausted
FinishRun(c) ==
  LET cl == call[c]
      q == queries[cl.q]
  IN /\ cl.kind = "Run"
     /\ IF cl.updated < 1 /\ ~q.AllowZeroRows
        THEN /\ failedScrapes' = SetFailed(failedScrapes, cl.q, c, 1)
             /\ failedQueryCounter' = Inc(failedQueryCounter, q.Name)
             /\ call' = [call EXCEPT ![c] = Returned(cl, "zero rows returned")]
        ELSE /\ failedScrapes' = IF cl.updated < 1 THEN SetFailed(failedScrapes, cl.q, c, 0)
                                 ELSE failedScrapes
             /\ call' = [call EXCEPT ![c].pc = "lock"]
             /\ UNCHANGED failedQueryCounter

\* a variant that ignores allow_zero_rows
FinishRunIterator_ZeroRowsFail(c) ==
  LET cl == call[c] IN
  /\ cl.kind = "RunIterator"
  /\ cl.i >= Len(cl.ivs)
  /\ IF cl.updated < 1
     THEN /\ call' = [call EXCEPT ![c] = Returned(cl, "zero rows returned")]
     ELSE /\ call' = [call EXCEPT ![c].pc = "lock"]
  /\ UNCHANGED <<failedScrapes, failedQueryCounter>>

\* RunIterator lines 133-144: the rows of the last iterator value are exhausted
FinishRunIterator(c) ==
  LET cl == call[c]
      q == queries[cl.q]
  IN /\ cl.kind = "RunIterator"
     /\ cl.i >= Len(cl.ivs)
     /\ IF cl.updated < 1 /\ ~q.AllowZeroRows
        THEN /\ call' = [call EXCEPT ![c] = Returned(cl, "zero rows returned")]
             /\ UNCHANGED failedScrapes
        ELSE /\ failedScrapes' = IF cl.updated < 1 THEN SetFailed(failedScrapes, cl.q, c, 0)
                                 ELSE failedScrapes
             /\ call' = [call EXCEPT ![c].pc = "lock"]
     /\ UNCHANGED failedQueryCounter

\* RunIterator line 106: the loop goes on to the next iterator value
NextIteratorValue(c) ==
  LET cl == call[c] IN
  /\ cl.kind = "RunIterator"
  /\ cl.i < Len(cl.ivs)
  /\ call' = [call EXCEPT ![c].i = @ + 1, ![c].pc = "query"]
  /\ UNCHANGED <<failedScrapes, failedQueryCounter>>

\* rows.Next returns false
EndRows(c) ==
  /\ ~fatal
  /\ call[c].pc = "rows"
  /\ (FinishRun(c) \/ FinishRunIterator(c) \/ NextIteratorValue(c))
  /\ UNCHANGED <<queries, metrics, writing, mutex, queryCounter, emitted, stored, fatal>>

\* q.Lock() and the start of q.metrics[conn] = metrics (Run lines 76-77, RunIterator 147-148)
BeginStore(c) ==
  LET cl == call[c] IN
  /\ ~fatal
  /\ cl.pc = "lock"
  /\ mutex[cl.q] = ""
  /\ mutex' = [mutex EXCEPT ![cl.q] = c]
  /\ writing' = [writing EXCEPT ![cl.q][ConnKey(c)] = [on |-> TRUE, vec |-> cl.buf]]
  /\ stored' = [stored EXCEPT ![cl.q][ConnKey(c)] = @ \cup {cl.buf}]
  /\ call' = [call EXCEPT ![c].pc = "store"]
  /\ UNCHANGED <<queries, metrics, failedScrapes, queryCounter, failedQueryCounter,
                 emitted, fatal>>

\* a variant that returns without q.Unlock()
EndStore_KeepsLock(c) ==
  LET cl == call[c] IN
  /\ ~fatal
  /\ cl.pc = "store"
  /\ metrics' = [metrics EXCEPT ![cl.q][ConnKey(c)] = cl.buf]
  /\ writing' = [writing EXCEPT ![cl.q][ConnKey(c)] = NoStore]
  /\ call' = [call EXCEPT ![c] = Returned(cl, "")]
  /\ UNCHANGED <<queries, mutex, failedScrapes, queryCounter, failedQueryCounter, emitted,
                 stored, fatal>>

\* the end of the map store, q.Unlock() and return nil (Run lines 77-80, RunIterator 148-151)
EndStore(c) ==
  LET cl == call[c] IN
  /\ ~fatal
  /\ cl.pc = "store"
  /\ metrics' = [metrics EXCEPT ![cl.q][ConnKey(c)] = cl.buf]
  /\ writing' = [writing EXCEPT ![cl.q][ConnKey(c)] = NoStore]
  /\ mutex' = [mutex EXCEPT ![cl.q] = ""]
  /\ call' = [call EXCEPT ![c] = Returned(cl, "")]
  /\ UNCHANGED <<queries, failedScrapes, queryCounter, failedQueryCounter, emitted,
                 stored, fatal>>

----------------------------------------------------------------------------
(* exporter.go: Collect ranges over query.metrics without taking q.Lock(). *)
(* A read of an entry while its store is in progress is a data race on the *)
(* slice header (pointer, length): the reader takes the old header, the    *)
(* new one, or the pointer of one with the length of the other; the        *)
(* runtime may also detect the concurrent map access and end the process.  *)

TornKinds == {"old", "new", "newPtrOldLen", "oldPtrNewLen"}

\* the vector a reader walks for a header torn between old and new
TornVector(old, new, t) ==
  CASE t = "old" -> old
    [] t = "new" -> new
    [] t = "newPtrOldLen" -> SubSeq(new, 1, Min(Len(old), Len(new)))
    [] t = "oldPtrNewLen" -> SubSeq(old, 1, Min(Len(old), Len(new)))

\* what Collect reads for (qi, c), t deciding a read that races with a store
ReadEntry(qi, c, t) ==
  IF writing[qi][c].on THEN TornVector(metrics[qi][c], writing[qi][c].vec, t)
  ELSE metrics[qi][c]

\* Exporter.Collect: every cached vector is sent to the channel
Collect ==
  /\ ~fatal
  /\ \E t \in TornKinds :
       emitted' = [qi \in QIdx |-> [c \in Conns |->
                     [vec |-> ReadEntry(qi, c, t), at |-> call[c].pc]]]
  /\ UNCHANGED <<queries, metrics, writing, mutex, failedScrapes, queryCounter,
                 failedQueryCounter, call, stored, fatal>>

\* the runtime detects the map iteration of Collect during a map write
CollectFatal ==
  /\ ~fatal
  /\ \E qi \in QIdx, c \in Conns : writing[qi][c].on
  /\ fatal' = TRUE
  /\ UNCHANGED <<queries, metrics, writing, mutex, failedScrapes, queryCounter,
                 failedQueryCounter, call, emitted, stored>>

----------------------------------------------------------------------------
(* Specification of one (query, connection) pair: one execution of the     *)
(* query, by Run or by RunIterator, from a state the pair can be in, with  *)
(* scrapes at any moment.                                                  *)

\* sequences over S of length 1..n
RECURSIVE SeqsUpTo(_, _)
SeqsUpTo(S, n) ==
  IF n = 0 THEN {}
  ELSE LET shorter == SeqsUpTo(S, n - 1)
       IN {<<x>> : x \in S} \cup shorter \cup {Append(s, x) : s \in shorter, x \in S}

\* the values an iterator query yields
IteratorValues == {"a", "b"}

\* the values of the iterator the pair is run with: a text, and the empty
\* string (a row of the iterator SQL may hold either)
PairIteratorValues == {"a", ""}

\* conn.iteratorValues when RunIterator is called: never empty
IvSeqs == SeqsUpTo(PairIteratorValues, MaxIvs)

\* the query of the pair: read once per iterator value, its allow_zero_rows
\* either way; or a query Job.Init left without descriptor (no SQL)
PairQueries ==
  {ConfigQuery("q", <<"s", "{", "{", "K", "}", "}">>, "", az) : az \in BOOLEAN}
    \cup {ConfigQuery("q", <<>>, "missing", FALSE)}

\* what a Run that read one GoodRow stored
OldMetrics(q) == updateMetrics(q, Conn1, GoodRow.cols, "", "").ms

\* the pair before the execution: never executed; after a successful
\* execution; after a successful execution and a failed one
PairStates == {"fresh", "succeeded", "failed"}

InitQueryPair ==
  /\ \E cq \in PairQueries : queries = JobInit(<<cq>>, JobName, Iterator, SharedQueries)
  /\ \E st \in PairStates :
       /\ st # "fresh" => ~queries[1].desc.nil
       /\ metrics = [qi \in {1} |-> [c \in Conns |->
                       IF st = "fresh" THEN <<>> ELSE OldMetrics(queries[1])]]
       /\ stored = [qi \in {1} |-> [c \in Conns |-> {<<>>, metrics[qi][c]}]]
       /\ failedScrapes = [qi \in {1} |-> [c \in Conns |->
                       CASE st = "fresh" -> -1 [] st = "succeeded" -> 0 [] st = "failed" -> 1]]
       /\ queryCounter = ("q" :> (CASE st = "fresh" -> 0 [] st = "succeeded" -> 1 [] st = "failed" -> 2))
                           @@ ("" :> 0)
       /\ failedQueryCounter = ("q" :> (IF st = "failed" THEN 1 ELSE 0)) @@ ("" :> 0)
  /\ writing = [qi \in {1} |-> [c \in Conns |-> NoStore]]
  /\ mutex = [qi \in {1} |-> ""]
  /\ call = [c \in Conns |-> NoCall]
  /\ emitted = [qi \in {1} |-> [c \in Conns |-> [vec |-> <<>>, at |-> "never"]]]
  /\ fatal = FALSE

\* Job.Run is not executing
IdleRun == [pc |-> "idle", max |-> 0, closed |-> FALSE, attempts |-> 0, total |-> 0,
            spawn |-> {}, pending |-> {}, updated |-> 0, err |-> ""]

\* the job's clock is not in use
ParkedRun ==
  /\ jobCfg = [Interval |-> 0, cron |-> FALSE, conns |-> {}]
  /\ run = IdleRun
  /\ deadline = "none"

\* the configuration has not been read and nothing is scheduled
ParkedSched ==
  /\ yaml = <<>>
  /\ jobs = <<>>
  /\ exporter = [pc |-> "none", next |-> 1, jobs |-> <<>>, cronEntries |-> {},
                 cronStarted |-> FALSE]
  /\ loops = <<>>
  /\ firings = <<>>
  /\ workers = <<>>
  /\ scrapes = <<>>
  /\ runsLog = <<>>

\* no activities share a connection
ParkedCron ==
  /\ pool = ""
  /\ order = [executed |-> <<>>, writes |-> <<>>]

\* no connection record is under connect, nothing is being registered or probed
ParkedSetup ==
  /\ connection = <<>>
  /\ now = 0
  /\ trace = <<>>
  /\ crash = ""
  /\ described = {}
  /\ reg = <<>>
  /\ healthz = <<>>
  /\ activities = <<>>

ParkedOuter == ParkedRun /\ ParkedSched /\ ParkedCron /\ ParkedSetup

\* the label helpers are not in use
ParkedLabels ==
  /\ redactedLabels = {}
  /\ labelNames = <<>>
  /\ labelValues = <<>>
  /\ labelCall = "none"

NextQueryPair ==
  \/ \E c \in Conns : StartRun(c, 1) /\ UNCHANGED <<labelVars, setupVars, jobVars, outerVars>>
  \/ \E c \in Conns, ivs \in IvSeqs :
       StartRunIterator(c, 1, Iterator.Placeholder, ivs, Iterator.Label)
         /\ UNCHANGED <<labelVars, setupVars, jobVars, outerVars>>
  \/ \E c \in Conns : QueryxOk(c) /\ UNCHANGED <<labelVars, setupVars, jobVars, outerVars>>
  \/ \E c \in Conns : QueryxErr(c) /\ UNCHANGED <<labelVars, setupVars, jobVars, outerVars>>
  \/ \E c \in Conns, row \in Rows : NextRow(c, row) /\ UNCHANGED <<labelVars, setupVars, jobVars, outerVars>>
  \/ \E c \in Conns : EndRows(c) /\ UNCHANGED <<labelVars, setupVars, jobVars, outerVars>>
  \/ \E c \in Conns : BeginStore(c) /\ UNCHANGED <<labelVars, setupVars, jobVars, outerVars>>
  \/ \E c \in Conns : EndStore(c) /\ UNCHANGED <<labelVars, setupVars, jobVars, outerVars>>
  \/ Collect /\ UNCHANGED <<labelVars, setupVars, jobVars, outerVars>>
  \/ CollectFatal /\ UNCHANGED <<labelVars, setupVars, jobVars, outerVars>>

\* the job runner is not in use
ParkedJob ==
  /\ runner = [c \in Conns |-> [pc |-> "idle", idx |-> 0, updated |-> 0, attempts |-> 0,
                                 ivs |-> <<>>]]
  /\ iteratorValues = [c \in Conns |-> <<>>]
  /\ sent = <<>>

InitSpecQuery == InitQueryPair /\ ParkedLabels /\ ParkedJob /\ ParkedOuter

SpecQuery == InitSpecQuery /\ [][NextQueryPair]_vars

\* the executor is not in use
ParkedQueries ==
  /\ queries = <<>>
  /\ metrics = <<>>
  /\ writing = <<>>
  /\ mutex = <<>>
  /\ failedScrapes = <<>>
  /\ queryCounter = <<>>
  /\ failedQueryCounter = <<>>
  /\ call = [c \in Conns |-> NoCall]
  /\ emitted = <<>>
  /\ stored = <<>>
  /\ fatal = FALSE

----------------------------------------------------------------------------
(* Specification of the label helpers: the redact list is any set of label *)
(* names; one step applies the names helper and the values helper of a     *)
(* metric family under the same redact list.                               *)

\* the label names a redact list may hold: every fixed label and a name that is none of them
RedactableNames == {"driver", "host", "database", "user", "col", "sql_job", "query", "other"}

LabelQueryName == "q"
LabelValueName == "count"

InitLabels ==
  /\ redactedLabels \in SUBSET RedactableNames
  /\ labelNames = <<>>
  /\ labelValues = <<>>
  /\ labelCall = "none"

ApplySQLGauges ==
  /\ labelCall = "none"
  /\ labelNames' = GetLabelsForSQLGauges(redactedLabels)
  /\ labelValues' = AppendLabelValuesForSQLGauges(<<>>, Conn1, LabelValueName, redactedLabels)
  /\ labelCall' = "gauges"
  /\ UNCHANGED redactedLabels

ApplyFailedScrapes ==
  /\ labelCall = "none"
  /\ labelNames' = GetLabelsForFailedScrapes(redactedLabels)
  /\ labelValues' = FilteredLabelValuesForFailedScrapes(Conn1, JobName, LabelQueryName, redactedLabels)
  /\ labelCall' = "failed"
  /\ UNCHANGED redactedLabels

NextLabels ==
  \/ ApplySQLGauges /\ UNCHANGED <<queryVars, jobVars, outerVars, setupVars>>
  \/ ApplyFailedScrapes /\ UNCHANGED <<queryVars, jobVars, outerVars, setupVars>>

InitSpecLabels == InitLabels /\ ParkedQueries /\ ParkedJob /\ ParkedOuter

SpecLabels == InitSpecLabels /\ [][NextLabels]_vars

----------------------------------------------------------------------------
(* The job runner (job.go: runOnceConnection) on a connection: the         *)
(* iterator SQL, then every query of the job in order, by RunIterator or   *)
(* by Run; scrapes at any moment.                                          *)

\* the queries of the job: one whose SQL holds the placeholder text outside
\* any token, one that holds the token, one that refers to the shared
\* dictionary, and one whose reference resolves to nothing
JobQueries ==
  << ConfigQuery("bare", <<"s", "K">>, "", TRUE),
     ConfigQuery("iter", <<"s", "{", "{", "K", "}", "}">>, "", FALSE),
     ConfigQuery("plain", <<>>, "shared", FALSE),
     ConfigQuery("nodesc", <<>>, "missing", FALSE) >>

\* the rows the databases of the job return
JobRows == {GoodRow}

\* the log entry of a query that has not been called in this run
NoSent == [done |-> FALSE, texts |-> <<>>, err |-> ""]

IdleRunner == [pc |-> "idle", idx |-> 0, updated |-> 0, attempts |-> 0, ivs |-> <<>>]

InitJob ==
  /\ queries = JobInit(JobQueries, JobName, Iterator, SharedQueries)
  /\ metrics = [qi \in QIdx |-> [c \in Conns |-> <<>>]]
  /\ writing = [qi \in QIdx |-> [c \in Conns |-> NoStore]]
  /\ mutex = [qi \in QIdx |-> ""]
  /\ failedScrapes = [qi \in QIdx |-> [c \in Conns |-> -1]]
  /\ queryCounter = [k \in CounterKeys |-> 0]
  /\ failedQueryCounter = [k \in CounterKeys |-> 0]
  /\ call = [c \in Conns |-> NoCall]
  /\ emitted = [qi \in QIdx |-> [c \in Conns |-> [vec |-> <<>>, at |-> "never"]]]
  /\ stored = [qi \in QIdx |-> [c \in Conns |-> {<<>>}]]
  /\ fatal = FALSE
  /\ runner = [c \in Conns |-> IdleRunner]
  /\ iteratorValues = [c \in Conns |-> <<>>]
  /\ sent = [c \in Conns |-> [qi \in QIdx |-> NoSent]]

\* runOnce starts runOnceConnection, which calls conn.connect (lines 684-690)
StartAttempt(c) ==
  /\ ~fatal
  /\ runner[c].pc = "idle"
  /\ runner[c].attempts < MaxAttempts
  /\ runner' = [runner EXCEPT ![c].pc = "connect", ![c].idx = 1, ![c].updated = 0,
                              ![c].ivs = <<>>]
  /\ sent' = [sent EXCEPT ![c] = [qi \in QIdx |-> NoSent]]
  /\ UNCHANGED <<iteratorValues, queryVars>>

\* the position of the first nil entry of the query list, one past its end
\* when it has none
FirstNil(qs) ==
  IF \E i \in 1..Len(qs) : qs[i].nil
  THEN CHOOSE i \in 1..Len(qs) : qs[i].nil /\ \A k \in 1..(i - 1) : ~qs[k].nil
  ELSE Len(qs) + 1

\* Job.markFailed: the gauge of every query of the job, on this connection;
\* the loop reads q.jobName of each entry and stops with a nil dereference
\* at a nil entry
markFailed(gauge, c) ==
  [qi \in QIdx |-> IF qi < FirstNil(queries) THEN [gauge[qi] EXCEPT ![ConnKey(c)] = 1]
                   ELSE gauge[qi]]

\* the run is abandoned before the first query (lines 691-697, 703-708,
\* 716-722); a panic of markFailed ends the process
AbandonRun(c) ==
  /\ failedScrapes' = markFailed(failedScrapes, c)
  /\ IF FirstNil(queries) <= Len(queries)
     THEN fatal' = TRUE /\ UNCHANGED <<failedQueryCounter, runner>>
     ELSE /\ failedQueryCounter' = Inc(failedQueryCounter, "")
          /\ runner' = [runner EXCEPT ![c].pc = "done"]
          /\ UNCHANGED fatal
  /\ UNCHANGED <<queries, metrics, writing, mutex, queryCounter, call, emitted, stored,
                 iteratorValues, sent>>

\* conn.connect returns an error: sqlx.Connect, the token refresh or the ping
\* failed (lines 691-697, 805-880)
ConnectErr(c) ==
  /\ ~fatal
  /\ runner[c].pc = "connect"
  /\ AbandonRun(c)

\* conn.connect returns nil; the iterator SQL is sent (lines 691, 699-702)
ConnectOk(c) ==
  /\ ~fatal
  /\ runner[c].pc = "connect"
  /\ runner' = [runner EXCEPT ![c].pc = "iterator"]
  /\ UNCHANGED <<iteratorValues, sent, queryVars>>

\* Queryx(j.Iterator.SQL) returns an error (lines 702-708)
IteratorQueryxErr(c) ==
  /\ ~fatal
  /\ runner[c].pc = "iterator"
  /\ AbandonRun(c)

\* Queryx(j.Iterator.SQL) returns rows (line 702)
IteratorQueryxOk(c) ==
  /\ ~fatal
  /\ runner[c].pc = "iterator"
  /\ runner' = [runner EXCEPT ![c].pc = "iteratorRows"]
  /\ UNCHANGED <<iteratorValues, sent, queryVars>>

\* one iterator row is scanned into ivs (lines 713-724)
IteratorRow(c, value) ==
  /\ ~fatal
  /\ runner[c].pc = "iteratorRows"
  /\ Len(runner[c].ivs) < MaxIvs
  /\ runner' = [runner EXCEPT ![c].ivs = Append(@, value)]
  /\ UNCHANGED <<iteratorValues, sent, queryVars>>

\* rows.Scan of an iterator row returns an error (lines 716-722)
IteratorScanErr(c) ==
  /\ ~fatal
  /\ runner[c].pc = "iteratorRows"
  /\ Len(runner[c].ivs) < MaxIvs
  /\ AbandonRun(c)

\* the iterator rows are exhausted: conn.iteratorValues = ivs (line 726)
IteratorEnd(c) ==
  /\ ~fatal
  /\ runner[c].pc = "iteratorRows"
  /\ iteratorValues' = [iteratorValues EXCEPT ![ConnKey(c)] = runner[c].ivs]
  /\ runner' = [runner EXCEPT ![c].pc = "queries"]
  /\ UNCHANGED <<sent, queryVars>>

\* a query without descriptor is skipped (lines 733-737)
SkipQuery(c) ==
  /\ ~fatal
  /\ runner[c].pc = "queries"
  /\ runner[c].idx \in QIdx
  /\ queries[runner[c].idx].desc.nil
  /\ runner' = [runner EXCEPT ![c].idx = @ + 1]
  /\ UNCHANGED <<iteratorValues, sent, queryVars>>

\* the next query is called, by RunIterator or by Run (lines 738-752)
RunQuery(c) ==
  LET qi == runner[c].idx IN
  /\ runner[c].pc = "queries"
  /\ qi \in QIdx
  /\ ~queries[qi].desc.nil
  /\ IF iteratorValues[ConnKey(c)] # <<>> /\ HasIterator(queries[qi], Iterator.Placeholder)
     THEN StartRunIterator(c, qi, Iterator.Placeholder, iteratorValues[ConnKey(c)],
                           Iterator.Label)
     ELSE StartRun(c, qi)
  /\ UNCHANGED jobVars

\* a variant that leaves the query loop when a call returns an error
QueryReturned_ReturnsOnError(c) ==
  LET cl == call[c] IN
  /\ ~fatal
  /\ runner[c].pc = "queries"
  /\ cl.pc = "returned"
  /\ runner' = [runner EXCEPT ![c].idx = IF cl.err = "" THEN @ + 1 ELSE Len(queries) + 1,
                              ![c].updated = IF cl.err = "" THEN @ + 1 ELSE @]
  /\ sent' = [sent EXCEPT ![c][cl.q] = [done |-> TRUE, texts |-> cl.sent, err |-> cl.err]]
  /\ call' = [call EXCEPT ![c] = NoCall]
  /\ UNCHANGED <<queries, metrics, writing, mutex, failedScrapes, queryCounter,
                 failedQueryCounter, emitted, stored, fatal, iteratorValues>>

\* the call returned: continue on error, updated++ otherwise (lines 742-755)
QueryReturned(c) ==
  LET cl == call[c] IN
  /\ ~fatal
  /\ runner[c].pc = "queries"
  /\ cl.pc = "returned"
  /\ runner' = [runner EXCEPT ![c].idx = @ + 1,
                              ![c].updated = IF cl.err = "" THEN @ + 1 ELSE @]
  /\ sent' = [sent EXCEPT ![c][cl.q] = [done |-> TRUE, texts |-> cl.sent, err |-> cl.err]]
  /\ call' = [call EXCEPT ![c] = NoCall]
  /\ UNCHANGED <<queries, metrics, writing, mutex, failedScrapes, queryCounter,
                 failedQueryCounter, emitted, stored, fatal, iteratorValues>>

\* runOnceConnection returns: done <- updated (lines 685-688)
FinishAttempt(c) ==
  /\ ~fatal
  /\ \/ runner[c].pc = "done"
     \/ runner[c].pc = "queries" /\ runner[c].idx > Len(queries)
  /\ runner' = [runner EXCEPT ![c].pc = "idle", ![c].attempts = @ + 1]
  /\ UNCHANGED <<iteratorValues, sent, queryVars>>

Next ==
  \/ \E c \in Conns : StartAttempt(c) /\ UNCHANGED <<labelVars, setupVars, outerVars>>
  \/ \E c \in Conns : ConnectErr(c) /\ UNCHANGED <<labelVars, setupVars, outerVars>>
  \/ \E c \in Conns : ConnectOk(c) /\ UNCHANGED <<labelVars, setupVars, outerVars>>
  \/ \E c \in Conns : IteratorQueryxErr(c) /\ UNCHANGED <<labelVars, setupVars, outerVars>>
  \/ \E c \in Conns : IteratorQueryxOk(c) /\ UNCHANGED <<labelVars, setupVars, outerVars>>
  \/ \E c \in Conns, v \in IteratorValues : IteratorRow(c, v) /\ UNCHANGED <<labelVars, setupVars, outerVars>>
  \/ \E c \in Conns : IteratorScanErr(c) /\ UNCHANGED <<labelVars, setupVars, outerVars>>
  \/ \E c \in Conns : IteratorEnd(c) /\ UNCHANGED <<labelVars, setupVars, outerVars>>
  \/ \E c \in Conns : SkipQuery(c) /\ UNCHANGED <<labelVars, setupVars, outerVars>>
  \/ \E c \in Conns : RunQuery(c) /\ UNCHANGED <<labelVars, setupVars, outerVars>>
  \/ \E c \in Conns : QueryxOk(c) /\ UNCHANGED <<labelVars, setupVars, jobVars, outerVars>>
  \/ \E c \in Conns : QueryxErr(c) /\ UNCHANGED <<labelVars, setupVars, jobVars, outerVars>>
  \/ \E c \in Conns, row \in JobRows : NextRow(c, row) /\ UNCHANGED <<labelVars, setupVars, jobVars, outerVars>>
  \/ \E c \in Conns : EndRows(c) /\ UNCHANGED <<labelVars, setupVars, jobVars, outerVars>>
  \/ \E c \in Conns : BeginStore(c) /\ UNCHANGED <<labelVars, setupVars, jobVars, outerVars>>
  \/ \E c \in Conns : EndStore(c) /\ UNCHANGED <<labelVars, setupVars, jobVars, outerVars>>
  \/ \E c \in Conns : QueryReturned(c) /\ UNCHANGED <<labelVars, setupVars, outerVars>>
  \/ \E c \in Conns : FinishAttempt(c) /\ UNCHANGED <<labelVars, setupVars, outerVars>>

Init == InitJob /\ ParkedLabels /\ ParkedOuter

Spec == Init /\ [][Next]_vars

----------------------------------------------------------------------------
(* Job.Run (job.go): backoff.Retry around Job.runOnce, which starts one    *)
(* activity per connection under a context with a deadline and sums what   *)
(* they report. One invocation of Run at a time, called by the job's clock.*)

\* the connections a job may hold
RunConns == {"c1", "c2"}

\* time.Minute and the interval of the jobs, in seconds
Minute == 60

ConfiguredInterval == 5

\* the jobs Run is called on: Interval, whether CronSchedule.schedule is set,
\* and the connections Job.Init registered
RunJobs ==
  { [Interval |-> ConfiguredInterval, cron |-> FALSE, conns |-> {"c1", "c2"}],
    [Interval |-> ConfiguredInterval, cron |-> TRUE, conns |-> {"c1"}],
    [Interval |-> 0, cron |-> TRUE, conns |-> {}],
    [Interval |-> 0, cron |-> FALSE, conns |-> {"c1"}] }

\* the queries of these jobs: one, from the shared dictionary
RunQueries == << ConfigQuery("plain", <<>>, "shared", FALSE) >>

\* the values their iterator yields
RunIteratorValues == {"a"}

\* a variant in which a positive interval decides before the cron schedule
ClockOf_IntervalFirst(j) ==
  IF j.Interval > 0 THEN "loop" ELSE IF j.cron THEN "cron" ELSE "loop"

\* NewExporter lines 98-104: the clock a job is attached to
ClockOf(j) == IF j.cron THEN "cron" ELSE "loop"

\* Job.Run lines 767-771: bo.MaxElapsedTime
MaxElapsedTime(j) == IF j.Interval = 0 THEN Minute ELSE j.Interval

\* a variant that fails unless two executions succeeded
runOnceResult_AtLeastTwo(updated) == IF updated < 2 THEN "zero queries ran" ELSE ""

\* runOnce lines 799-802: the error it returns ("" is nil)
runOnceResult(updated) == IF updated < 1 THEN "zero queries ran" ELSE ""

InitRun ==
  /\ queries = JobInit(RunQueries, JobName, Iterator, SharedQueries)
  /\ metrics = [qi \in QIdx |-> [c \in RunConns |-> <<>>]]
  /\ writing = [qi \in QIdx |-> [c \in RunConns |-> NoStore]]
  /\ mutex = [qi \in QIdx |-> ""]
  /\ failedScrapes = [qi \in QIdx |-> [c \in RunConns |-> -1]]
  /\ queryCounter = [k \in CounterKeys |-> 0]
  /\ failedQueryCounter = [k \in CounterKeys |-> 0]
  /\ call = [c \in RunConns |-> NoCall]
  /\ emitted = [qi \in QIdx |-> [c \in RunConns |-> [vec |-> <<>>, at |-> "never"]]]
  /\ stored = [qi \in QIdx |-> [c \in RunConns |-> {<<>>}]]
  /\ fatal = FALSE
  /\ runner = [c \in RunConns |-> IdleRunner]
  /\ iteratorValues = [c \in RunConns |-> <<>>]
  /\ sent = [c \in RunConns |-> [qi \in QIdx |-> NoSent]]
  /\ jobCfg \in RunJobs
  /\ run = IdleRun
  /\ deadline = "none"

\* the clock of the job calls Job.Run: a new backoff, its window starts
\* (Run lines 767-772, backoff.Retry: b.Reset)
Run ==
  /\ run.pc = "idle"
  /\ run.total < MaxAttempts
  /\ run' = [run EXCEPT !.pc = "call", !.max = MaxElapsedTime(jobCfg), !.closed = FALSE,
                        !.attempts = 0]
  /\ UNCHANGED <<jobCfg, deadline, jobVars, queryVars>>

\* backoff.Retry calls runOnce: the context with the deadline is made
\* (runOnce lines 778-786)
runOnce ==
  /\ run.pc = "call"
  /\ run' = [run EXCEPT !.pc = "wait", !.spawn = jobCfg.conns, !.pending = jobCfg.conns,
                        !.updated = 0, !.attempts = @ + 1, !.total = @ + 1]
  /\ deadline' = "pending"
  /\ UNCHANGED <<jobCfg, jobVars, queryVars>>

\* go j.runOnceConnection(ctx, conn, doneChan) (runOnce lines 789-791)
Spawn(c) ==
  /\ run.pc = "wait"
  /\ c \in run.spawn
  /\ StartAttempt(c)
  /\ run' = [run EXCEPT !.spawn = @ \ {c}]
  /\ UNCHANGED <<jobCfg, deadline>>

\* updated += <-doneChan: what an activity that has ended reports is
\* received (runOnce lines 794-797, runOnceConnection lines 685-688)
ReceiveDone(c) ==
  /\ run.pc = "wait"
  /\ c \in run.pending \ run.spawn
  /\ FinishAttempt(c)
  /\ run' = [run EXCEPT !.pending = @ \ {c}, !.updated = @ + runner[c].updated]
  /\ UNCHANGED <<jobCfg, deadline>>

\* every activity has reported: runOnce returns, cancel() runs; on nil
\* backoff.Retry and Run return (runOnce lines 787, 799-802)
runOnceReturn ==
  LET err == runOnceResult(run.updated) IN
  /\ run.pc = "wait"
  /\ run.pending = {}
  /\ run' = [run EXCEPT !.err = err, !.pc = IF err = "" THEN "idle" ELSE "nextBackOff"]
  /\ deadline' = "none"
  /\ UNCHANGED <<jobCfg, jobVars, queryVars>>

\* b.NextBackOff returns Stop: the elapsed time is over MaxElapsedTime; Run
\* logs the error and returns
NextBackOffStop ==
  /\ run.pc = "nextBackOff"
  /\ run.closed
  /\ run' = [run EXCEPT !.pc = "idle"]
  /\ UNCHANGED <<jobCfg, deadline, jobVars, queryVars>>

\* b.NextBackOff returns a duration: backoff.Retry sleeps
NextBackOffSleep ==
  /\ run.pc = "nextBackOff"
  /\ ~run.closed
  /\ run.total < MaxAttempts
  /\ run' = [run EXCEPT !.pc = "sleep"]
  /\ UNCHANGED <<jobCfg, deadline, jobVars, queryVars>>

\* time.Sleep(next) returns: the next attempt
Wake ==
  /\ run.pc = "sleep"
  /\ run' = [run EXCEPT !.pc = "call"]
  /\ UNCHANGED <<jobCfg, deadline, jobVars, queryVars>>

\* time passes: more than MaxElapsedTime since b.Reset
WindowCloses ==
  /\ run.pc # "idle"
  /\ ~run.closed
  /\ run' = [run EXCEPT !.closed = TRUE]
  /\ UNCHANGED <<jobCfg, deadline, jobVars, queryVars>>

\* time passes: the deadline of the context of runOnce
DeadlineElapses ==
  /\ deadline = "pending"
  /\ deadline' = "elapsed"
  /\ UNCHANGED <<jobCfg, run, jobVars, queryVars>>

NextRun ==
  \/ Run /\ UNCHANGED <<labelVars, setupVars, schedVars, cronVars>>
  \/ runOnce /\ UNCHANGED <<labelVars, setupVars, schedVars, cronVars>>
  \/ \E c \in RunConns : Spawn(c) /\ UNCHANGED <<labelVars, setupVars, schedVars, cronVars>>
  \/ \E c \in RunConns : ConnectErr(c) /\ UNCHANGED <<labelVars, setupVars, outerVars>>
  \/ \E c \in RunConns : ConnectOk(c) /\ UNCHANGED <<labelVars, setupVars, outerVars>>
  \/ \E c \in RunConns : IteratorQueryxErr(c) /\ UNCHANGED <<labelVars, setupVars, outerVars>>
  \/ \E c \in RunConns : IteratorQueryxOk(c) /\ UNCHANGED <<labelVars, setupVars, outerVars>>
  \/ \E c \in RunConns, v \in RunIteratorValues : IteratorRow(c, v)
       /\ UNCHANGED <<labelVars, setupVars, outerVars>>
  \/ \E c \in RunConns : IteratorScanErr(c) /\ UNCHANGED <<labelVars, setupVars, outerVars>>
  \/ \E c \in RunConns : IteratorEnd(c) /\ UNCHANGED <<labelVars, setupVars, outerVars>>
  \/ \E c \in RunConns : RunQuery(c) /\ UNCHANGED <<labelVars, setupVars, outerVars>>
  \/ \E c \in RunConns : QueryxOk(c) /\ UNCHANGED <<labelVars, setupVars, jobVars, outerVars>>
  \/ \E c \in RunConns : QueryxErr(c) /\ UNCHANGED <<labelVars, setupVars, jobVars, outerVars>>
  \/ \E c \in RunConns, row \in JobRows : NextRow(c, row)
       /\ UNCHANGED <<labelVars, setupVars, jobVars, outerVars>>
  \/ \E c \in RunConns : EndRows(c) /\ UNCHANGED <<labelVars, setupVars, jobVars, outerVars>>
  \/ \E c \in RunConns : BeginStore(c) /\ UNCHANGED <<labelVars, setupVars, jobVars, outerVars>>
  \/ \E c \in RunConns : EndStore(c) /\ UNCHANGED <<labelVars, setupVars, jobVars, outerVars>>
  \/ \E c \in RunConns : QueryReturned(c) /\ UNCHANGED <<labelVars, setupVars, outerVars>>
  \/ \E c \in RunConns : ReceiveDone(c) /\ UNCHANGED <<labelVars, setupVars, schedVars, cronVars>>
  \/ runOnceReturn /\ UNCHANGED <<labelVars, setupVars, schedVars, cronVars>>
  \/ NextBackOffStop /\ UNCHANGED <<labelVars, setupVars, schedVars, cronVars>>
  \/ NextBackOffSleep /\ UNCHANGED <<labelVars, setupVars, schedVars, cronVars>>
  \/ Wake /\ UNCHANGED <<labelVars, setupVars, schedVars, cronVars>>
  \/ WindowCloses /\ UNCHANGED <<labelVars, setupVars, schedVars, cronVars>>
  \/ DeadlineElapses /\ UNCHANGED <<labelVars, setupVars, schedVars, cronVars>>

InitSpecRun == InitRun /\ ParkedLabels /\ ParkedSched /\ ParkedCron /\ ParkedSetup

SpecRun == InitSpecRun /\ [][NextRun]_vars

\* the steps of the goroutines of the job: the scheduler runs each of them
\* when it can be taken
GoroutineSteps ==
  \/ runOnce
  \/ \E c \in RunConns : Spawn(c)
  \/ \E c \in RunConns : RunQuery(c) /\ UNCHANGED runVars
  \/ \E c \in RunConns : BeginStore(c) /\ UNCHANGED <<jobVars, runVars>>
  \/ \E c \in RunConns : EndStore(c) /\ UNCHANGED <<jobVars, runVars>>
  \/ \E c \in RunConns : QueryReturned(c) /\ UNCHANGED runVars
  \/ \E c \in RunConns : ReceiveDone(c)
  \/ runOnceReturn
  \/ NextBackOffStop
  \/ NextBackOffSleep
  \/ Wake

\* the timers: the deadline of the context and the clock the backoff reads
TimerSteps == WindowCloses \/ DeadlineElapses

\* the rows of a statement the database has answered are delivered to the end
RowsEndSteps ==
  \/ \E c \in RunConns : IteratorEnd(c) /\ UNCHANGED runVars
  \/ \E c \in RunConns : EndRows(c) /\ UNCHANGED <<jobVars, runVars>>

\* Job.Run with the goroutines scheduled fairly, the timers running and
\* answered statements delivered; whether and when the database answers a
\* connect or a statement is left to the database
SpecRunLive ==
  /\ InitSpecRun
  /\ [][NextRun]_vars
  /\ WF_vars(RowsEndSteps /\ UNCHANGED <<labelVars, setupVars, schedVars, cronVars>>)
  /\ WF_vars(GoroutineSteps /\ UNCHANGED <<labelVars, setupVars, schedVars, cronVars>>)
  /\ WF_vars(TimerSteps /\ UNCHANGED <<labelVars, setupVars, schedVars, cronVars>>)

----------------------------------------------------------------------------
(* The clocks of the jobs (exporter.go: NewExporter; job.go:               *)
(* ExecutePeriodically; the cron scheduler) and the scrape path that pulls *)
(* the triggers (handlerFunc). Job.Run is a call that begins and returns;  *)
(* what it does in between is the subject of SpecRun.                      *)

\* cfg.Jobs, in the order of the file
SchedJobs == <<"j1", "j2">>

JobIds == Range(SchedJobs)

\* the cron_schedule key of a job: absent, an expression that parses, one that does not
CronDefs == {"absent", "valid", "bad"}

\* the HTTP requests served by handlerFunc
Scrapes == {"s1", "s2"}

\* calls of Job.Run per job by its loop, and by the cron scheduler
MaxRuns == 2

\* cronConfig.UnmarshalYAML, called when the key is present: cron.ParseStandard
UnmarshalCron(def) == [schedule |-> def = "valid", err |-> def = "bad"]

\* config.Read: yaml.Unmarshal fails when the unmarshalling of a job fails
Read(y) ==
  IF \E j \in JobIds : UnmarshalCron(y[j].cron_schedule).err
  THEN [err |-> TRUE, jobs |-> <<>>]
  ELSE [err |-> FALSE,
        jobs |-> [j \in JobIds |-> [Interval |-> y[j].interval,
                                    cron |-> UnmarshalCron(y[j].cron_schedule).schedule,
                                    conns |-> {"c1"}]]]

\* spec section 4.5: a job with interval 0 and no cron expression
OnDemand(j) == j.Interval = 0 /\ ~j.cron

\* handlerFunc lines 16 and 25: the jobs it passes over
IsAsync(j) == j.Interval > 0

\* a variant of the wait loop that waits for no job
WaitsFor_None(j) == FALSE

\* handlerFunc lines 24-29: the jobs whose Done it receives from
WaitsFor(j) == ~IsAsync(j)

NoScrape == [pc |-> "idle", i |-> 1, trig |-> {}, done |-> {}, response |-> <<>>]

NoRuns == [loop |-> 0, cron |-> 0, trigger |-> 0, completed |-> 0]

NoWorker == [pc |-> "none", for |-> "", log |-> [s \in Scrapes |-> 0]]

InitSched ==
  /\ yaml \in [JobIds -> [interval : {0, ConfiguredInterval}, cron_schedule : CronDefs]]
  /\ jobs = <<>>
  /\ exporter = [pc |-> "read", next |-> 1, jobs |-> <<>>, cronEntries |-> {},
                 cronStarted |-> FALSE]
  /\ loops = [j \in JobIds |-> "none"]
  /\ firings = [j \in JobIds |-> 0]
  /\ workers = [j \in JobIds |-> NoWorker]
  /\ scrapes = [s \in Scrapes |-> NoScrape]
  /\ runsLog = [j \in JobIds |-> NoRuns]

\* NewExporter lines 28-31: the configuration is read; on an error main exits
ReadConfig ==
  LET r == Read(yaml) IN
  /\ exporter.pc = "read"
  /\ jobs' = r.jobs
  /\ exporter' = [exporter EXCEPT !.pc = IF r.err THEN "exit" ELSE "dispatch"]
  /\ UNCHANGED <<yaml, loops, firings, workers, scrapes, runsLog>>

\* NewExporter lines 87-105: the next job is appended to exp.jobs and
\* attached to its clock
DispatchJob ==
  LET j == SchedJobs[exporter.next] IN
  /\ exporter.pc = "dispatch"
  /\ exporter.next <= Len(SchedJobs)
  /\ exporter' = [exporter EXCEPT
                    !.next = @ + 1,
                    !.jobs = Append(@, j),
                    !.cronEntries = IF ClockOf(jobs[j]) = "cron" THEN @ \cup {j} ELSE @]
  /\ loops' = IF ClockOf(jobs[j]) = "loop" THEN [loops EXCEPT ![j] = "loop"] ELSE loops
  /\ UNCHANGED <<yaml, jobs, firings, workers, scrapes, runsLog>>

\* NewExporter line 106: exp.cronScheduler.Start(); main goes on to serve HTTP
StartCron ==
  /\ exporter.pc = "dispatch"
  /\ exporter.next > Len(SchedJobs)
  /\ exporter' = [exporter EXCEPT !.pc = "serving", !.cronStarted = TRUE]
  /\ UNCHANGED <<yaml, jobs, loops, firings, workers, scrapes, runsLog>>

\* ExecutePeriodically line 678: j.Run() is called
LoopRun(j) ==
  /\ loops[j] = "loop"
  /\ runsLog[j].loop < MaxRuns
  /\ loops' = [loops EXCEPT ![j] = "run"]
  /\ runsLog' = [runsLog EXCEPT ![j].loop = @ + 1]
  /\ UNCHANGED <<yaml, jobs, exporter, firings, workers, scrapes>>

\* ExecutePeriodically lines 678-680: j.Run() returns, time.Sleep(j.Interval)
LoopRunReturns(j) ==
  /\ loops[j] = "run"
  /\ loops' = [loops EXCEPT ![j] = "sleep"]
  /\ runsLog' = [runsLog EXCEPT ![j].completed = @ + 1]
  /\ UNCHANGED <<yaml, jobs, exporter, firings, workers, scrapes>>

\* ExecutePeriodically lines 677, 680: the sleep is over
LoopWake(j) ==
  /\ loops[j] = "sleep"
  /\ loops' = [loops EXCEPT ![j] = "loop"]
  /\ UNCHANGED <<yaml, jobs, exporter, firings, workers, scrapes, runsLog>>

\* the cron scheduler fires an entry: Job.Run is called on a goroutine of its own
CronFire(j) ==
  /\ exporter.cronStarted
  /\ j \in exporter.cronEntries
  /\ runsLog[j].cron < MaxRuns
  /\ firings' = [firings EXCEPT ![j] = @ + 1]
  /\ runsLog' = [runsLog EXCEPT ![j].cron = @ + 1]
  /\ UNCHANGED <<yaml, jobs, exporter, loops, workers, scrapes>>

\* a call of Job.Run by the cron scheduler returns
CronRunReturns(j) ==
  /\ firings[j] > 0
  /\ firings' = [firings EXCEPT ![j] = @ - 1]
  /\ runsLog' = [runsLog EXCEPT ![j].completed = @ + 1]
  /\ UNCHANGED <<yaml, jobs, exporter, loops, workers, scrapes>>

\* the receiver of job.Trigger of an on-demand job starts to wait
WorkerStart(j) ==
  /\ exporter.pc = "serving"
  /\ OnDemand(jobs[j])
  /\ workers[j].pc = "none"
  /\ workers' = [workers EXCEPT ![j].pc = "waiting"]
  /\ UNCHANGED <<yaml, jobs, exporter, loops, firings, scrapes, runsLog>>

\* the receiver takes the trigger of scrape s and calls Job.Run
TriggerReceived(w, s) == [w EXCEPT !.pc = "running", !.for = s]

\* the triggered Job.Run returns; the receiver is about to send on job.Done
WorkerRunReturns(j) ==
  /\ workers[j].pc = "running"
  /\ workers' = [workers EXCEPT ![j].pc = "finished",
                                ![j].log[workers[j].for] = runsLog[j].completed + 1]
  /\ runsLog' = [runsLog EXCEPT ![j].completed = @ + 1]
  /\ UNCHANGED <<yaml, jobs, exporter, loops, firings, scrapes>>

\* the receiver has sent on job.Done and waits for the next trigger
DoneSent(w) == [w EXCEPT !.pc = "waiting", !.for = ""]

\* an HTTP request arrives: handlerFunc is called
StartScrape(s) ==
  /\ exporter.pc = "serving"
  /\ scrapes[s].pc = "idle"
  /\ scrapes' = [scrapes EXCEPT ![s].pc = "trigger"]
  /\ UNCHANGED <<yaml, jobs, exporter, loops, firings, workers, runsLog>>

\* handlerFunc lines 14-20, one turn of the loop: the job is passed over, or
\* job.Trigger <- true is received
SendTrigger(s) ==
  LET sc == scrapes[s]
      j == exporter.jobs[sc.i]
  IN /\ sc.pc = "trigger"
     /\ sc.i <= Len(exporter.jobs)
     /\ IF IsAsync(jobs[j])
        THEN /\ scrapes' = [scrapes EXCEPT ![s].i = @ + 1]
             /\ UNCHANGED <<workers, runsLog>>
        ELSE /\ workers[j].pc = "waiting"
             /\ workers' = [workers EXCEPT ![j] = TriggerReceived(@, s)]
             /\ runsLog' = [runsLog EXCEPT ![j].trigger = @ + 1]
             /\ scrapes' = [scrapes EXCEPT ![s].i = @ + 1, ![s].trig = @ \cup {j}]
     /\ UNCHANGED <<yaml, jobs, exporter, loops, firings>>

\* handlerFunc lines 20-24: the first loop is over
TriggersSent(s) ==
  /\ scrapes[s].pc = "trigger"
  /\ scrapes[s].i > Len(exporter.jobs)
  /\ scrapes' = [scrapes EXCEPT ![s].pc = "wait", ![s].i = 1]
  /\ UNCHANGED <<yaml, jobs, exporter, loops, firings, workers, runsLog>>

\* handlerFunc lines 24-29, one turn of the loop: the job is passed over, or
\* <-job.Done receives
WaitDone(s) ==
  LET sc == scrapes[s]
      j == exporter.jobs[sc.i]
  IN /\ sc.pc = "wait"
     /\ sc.i <= Len(exporter.jobs)
     /\ IF WaitsFor(jobs[j])
        THEN /\ workers[j].pc = "finished"
             /\ workers' = [workers EXCEPT ![j] = DoneSent(@)]
             /\ scrapes' = [scrapes EXCEPT ![s].i = @ + 1, ![s].done = @ \cup {j}]
        ELSE /\ scrapes' = [scrapes EXCEPT ![s].i = @ + 1]
             /\ UNCHANGED workers
     /\ UNCHANGED <<yaml, jobs, exporter, loops, firings, runsLog>>

\* handlerFunc lines 31-35: the promhttp handler gathers and answers
Serve(s) ==
  /\ scrapes[s].pc = "wait"
  /\ scrapes[s].i > Len(exporter.jobs)
  /\ scrapes' = [scrapes EXCEPT ![s].pc = "served",
                                ![s].response = [j \in JobIds |-> runsLog[j].completed]]
  /\ UNCHANGED <<yaml, jobs, exporter, loops, firings, workers, runsLog>>

offSchedVars == <<labelVars, queryVars, jobVars, runVars, cronVars, setupVars>>

NextSched ==
  \/ ReadConfig /\ UNCHANGED offSchedVars
  \/ DispatchJob /\ UNCHANGED offSchedVars
  \/ StartCron /\ UNCHANGED offSchedVars
  \/ \E j \in JobIds : LoopRun(j) /\ UNCHANGED offSchedVars
  \/ \E j \in JobIds : LoopRunReturns(j) /\ UNCHANGED offSchedVars
  \/ \E j \in JobIds : LoopWake(j) /\ UNCHANGED offSchedVars
  \/ \E j \in JobIds : CronFire(j) /\ UNCHANGED offSchedVars
  \/ \E j \in JobIds : CronRunReturns(j) /\ UNCHANGED offSchedVars
  \/ \E j \in JobIds : WorkerStart(j) /\ UNCHANGED offSchedVars
  \/ \E j \in JobIds : WorkerRunReturns(j) /\ UNCHANGED offSchedVars
  \/ \E s \in Scrapes : StartScrape(s) /\ UNCHANGED offSchedVars
  \/ \E s \in Scrapes : SendTrigger(s) /\ UNCHANGED offSchedVars
  \/ \E s \in Scrapes : TriggersSent(s) /\ UNCHANGED offSchedVars
  \/ \E s \in Scrapes : WaitDone(s) /\ UNCHANGED offSchedVars
  \/ \E s \in Scrapes : Serve(s) /\ UNCHANGED offSchedVars

InitSpecSched == InitSched /\ ParkedLabels /\ ParkedQueries /\ ParkedJob /\ ParkedRun /\ ParkedCron /\ ParkedSetup

SpecSched == InitSpecSched /\ [][NextSched]_vars

----------------------------------------------------------------------------
(* Two calls of Job.Run of one job by the cron scheduler, each on a        *)
(* goroutine of its own: their activities run on the same connection, whose *)
(* pool has one open handle (SetMaxOpenConns(1)). Each call is followed to  *)
(* the end of its first attempt.                                            *)

\* the connection of the job
CronConns == {"c1"}

\* the rows the database returns to the activities
CronRows == {GoodRow, PartialRow}

InitCron ==
  /\ queries = JobInit(RunQueries, JobName, Iterator, SharedQueries)
  /\ metrics = [qi \in QIdx |-> [c \in CronConns |-> <<>>]]
  /\ writing = [qi \in QIdx |-> [c \in CronConns |-> NoStore]]
  /\ mutex = [qi \in QIdx |-> ""]
  /\ failedScrapes = [qi \in QIdx |-> [c \in CronConns |-> -1]]
  /\ queryCounter = [k \in CounterKeys |-> 0]
  /\ failedQueryCounter = [k \in CounterKeys |-> 0]
  /\ call = [f \in Firings |-> NoCall]
  /\ emitted = [qi \in QIdx |-> [c \in CronConns |-> [vec |-> <<>>, at |-> "never"]]]
  /\ stored = [qi \in QIdx |-> [c \in CronConns |-> {<<>>}]]
  /\ fatal = FALSE
  /\ runner = [f \in Firings |-> IdleRunner]
  /\ iteratorValues = [c \in CronConns |-> <<>>]
  /\ sent = [f \in Firings |-> [qi \in QIdx |-> NoSent]]
  /\ pool = ""
  /\ order = [executed |-> <<>>, writes |-> <<>>]

\* the cron scheduler fires the entry of the job: go j.Run(), whose runOnce
\* starts the activity on the connection
CronRun(f) ==
  /\ runner[f].attempts = 0
  /\ StartAttempt(f)
  /\ UNCHANGED cronVars

\* Queryx obtains the handle of the pool, waiting until it is free
Acquire(f) == pool = "" /\ pool' = f

\* the rows are closed (rows.Next returned false, or the deferred
\* rows.Close): the handle goes back to the pool
Release(f) == pool' = IF pool = f THEN "" ELSE pool

NextCron ==
  \/ \E f \in Firings : CronRun(f) /\ UNCHANGED <<labelVars, setupVars, runVars, schedVars>>
  \/ \E f \in Firings : ConnectErr(f) /\ UNCHANGED <<labelVars, setupVars, outerVars>>
  \/ \E f \in Firings : ConnectOk(f) /\ UNCHANGED <<labelVars, setupVars, outerVars>>
  \/ \E f \in Firings : pool = "" /\ IteratorQueryxErr(f) /\ UNCHANGED <<labelVars, setupVars, outerVars>>
  \/ \E f \in Firings : IteratorQueryxOk(f) /\ Acquire(f)
       /\ UNCHANGED <<labelVars, setupVars, runVars, schedVars, order>>
  \/ \E f \in Firings, v \in RunIteratorValues : IteratorRow(f, v)
       /\ UNCHANGED <<labelVars, setupVars, outerVars>>
  \/ \E f \in Firings : IteratorScanErr(f) /\ Release(f)
       /\ UNCHANGED <<labelVars, setupVars, runVars, schedVars, order>>
  \/ \E f \in Firings : IteratorEnd(f) /\ Release(f)
       /\ UNCHANGED <<labelVars, setupVars, runVars, schedVars, order>>
  \/ \E f \in Firings : RunQuery(f) /\ UNCHANGED <<labelVars, setupVars, outerVars>>
  \/ \E f \in Firings : QueryxOk(f) /\ Acquire(f)
       /\ order' = [order EXCEPT !.executed = Append(@, f)]
       /\ UNCHANGED <<labelVars, setupVars, jobVars, runVars, schedVars>>
  \/ \E f \in Firings : pool = "" /\ QueryxErr(f) /\ UNCHANGED <<labelVars, setupVars, jobVars, outerVars>>
  \/ \E f \in Firings, row \in CronRows : NextRow(f, row)
       /\ UNCHANGED <<labelVars, setupVars, jobVars, outerVars>>
  \/ \E f \in Firings : EndRows(f) /\ Release(f)
       /\ UNCHANGED <<labelVars, setupVars, jobVars, runVars, schedVars, order>>
  \/ \E f \in Firings : BeginStore(f) /\ UNCHANGED <<labelVars, setupVars, jobVars, outerVars>>
  \/ \E f \in Firings : EndStore(f)
       /\ order' = [order EXCEPT !.writes = Append(@, f)]
       /\ UNCHANGED <<labelVars, setupVars, jobVars, runVars, schedVars, pool>>
  \/ \E f \in Firings : QueryReturned(f) /\ UNCHANGED <<labelVars, setupVars, outerVars>>
  \/ \E f \in Firings : FinishAttempt(f) /\ UNCHANGED <<labelVars, setupVars, outerVars>>

InitSpecCron == InitCron /\ ParkedLabels /\ ParkedRun /\ ParkedSched /\ ParkedSetup

SpecCron == InitSpecCron /\ [][NextCron]_vars

----------------------------------------------------------------------------
(* connection.connect (job.go) on one connection record, as the activity   *)
(* of a run calls it while the wall clock advances: the token refresh of   *)
(* rds-mysql, the credential window of key-pair Snowflake, the ClickHouse  *)
(* normalisation, and configureConnection with the job's startup SQL.      *)
(* Texts are sequences of the pieces the code tests and trims: a scheme    *)
(* word, "+", "://" and the rest.                                          *)

\* the wall clock advances in steps of TickMinutes, up to MaxMinutes
TickMinutes == 15

MaxMinutes == 75

\* connect is called at most MaxConnects times on the record
MaxConnects == 3

\* handleRDSMySQLIAMAuth: time.Now().Add(14 * time.Minute)
TokenMinutes == 14

\* time.Hour, in minutes
Hour == 60

\* time.Time{}: before every instant
ZeroTime == -1

\* c.conn == nil; an open handle has a positive id and carries the IAM token
\* (by the time it was minted, -1: none) of the DSN it was opened with
NilConn == [id |-> 0, token |-> -1, MaxOpenConns |-> 0, startup |-> <<>>]

\* an open handle (*sqlx.DB): the token of the DSN it was opened with, its
\* pool limit (0: unlimited, the default of database/sql) and the startup
\* statements executed on it
Handle(id, token, maxOpen, startup) ==
  [id |-> id, token |-> token, MaxOpenConns |-> maxOpen, startup |-> startup]

\* strings.TrimPrefix
TrimPrefix(s, p) == IF HasPrefix(s, p) THEN SubSeq(s, Len(p) + 1, Len(s)) ELSE s

\* the text of a URL with the given scheme
UrlOf(scheme) == scheme \o <<"://", "h">>

\* the two revisions of connect the repository holds: job.go lines 589-685
\* assigns c.driver in its switch, lines 805-954 of the later revision
\* normalise ClickHouse in connectClickHouse on local copies
Revisions == {"assignsDriver", "localDriver"}

\* a connection record as updateConnections leaves it at time 0; url pairs
\* the text with the time the IAM token inside it was minted (-1: none)
NewConn(revision, driver, text, token, expiry, keyPair, tls) ==
  [revision |-> revision, driver |-> driver, url |-> [text |-> text, token |-> token],
   conn |-> NilConn, tokenExpirationTime |-> expiry, snowflakeDSN |-> keyPair,
   tlsConfig |-> tls]

ClickHousePlus == { <<"clickhouse", "+", p>> : p \in {"tcp", "http", "https"} }

\* updateConnections opens the handle of an athena record and of a
\* password Snowflake record itself, by sqlx.Open (lines 568-577, 660-664)
OpenedAtRegistration(c) == [c EXCEPT !.conn = Handle(1, -1, 0, <<>>)]

\* the records of the drivers connect treats apart
Registered ==
  { NewConn(r, d, UrlOf(d), -1, ZeroTime, FALSE, FALSE) :
      r \in Revisions, d \in ClickHousePlus \cup {<<"clickhouse">>} }
  \cup
  { NewConn("localDriver", <<"clickhouse", "+", "https">>,
            UrlOf(<<"clickhouse", "+", "https">>), -1, ZeroTime, FALSE, TRUE),
    NewConn("localDriver", <<"mysql">>, UrlOf(<<"rds-mysql">>), 0, TokenMinutes, FALSE, FALSE),
    NewConn("localDriver", <<"postgres">>, UrlOf(<<"postgres">>), 0, ZeroTime, FALSE, FALSE),
    NewConn("localDriver", <<"postgres">>, UrlOf(<<"postgres">>), -1, ZeroTime, FALSE, FALSE),
    NewConn("localDriver", <<"snowflake">>, UrlOf(<<"snowflake">>), -1, Hour, TRUE, FALSE),
    OpenedAtRegistration(NewConn("localDriver", <<"snowflake">>, UrlOf(<<"snowflake">>), -1,
                                 ZeroTime, FALSE, FALSE)),
    OpenedAtRegistration(NewConn("localDriver", <<"athena">>, UrlOf(<<"athena">>), -1,
                                 ZeroTime, FALSE, FALSE)) }

\* job.StartupSQL of the job that owns the record
StartupSQLs == {<<>>, <<"set">>, <<"set", "use">>}

\* the step of connect that fails in a call ("": none does)
Failures == {"", "mint", "open", "ping", "startup"}

\* connectClickHouse lines 918-930: the DSN and the driver name it passes on
connectClickHouse(c) ==
  LET dsn == c.url.text IN
  IF c.driver \in ClickHousePlus
  THEN [dsn |-> TrimPrefix(dsn, <<"clickhouse", "+">>), driver |-> <<"clickhouse">>,
        assigned |-> c.driver]
  ELSE IF c.driver = <<"clickhouse">>
            /\ ~HasPrefix(dsn, <<"tcp", "://">>) /\ ~HasPrefix(dsn, <<"http", "://">>)
            /\ ~HasPrefix(dsn, <<"https", "://">>)
  THEN [dsn |-> <<"tcp", "://">> \o TrimPrefix(dsn, <<"clickhouse", "://">>),
        driver |-> c.driver, assigned |-> c.driver]
  ELSE [dsn |-> dsn, driver |-> c.driver, assigned |-> c.driver]

\* the switch of connect (job.go lines 661-671; lines 881-886 of the later
\* revision keep its mysql case): the DSN, the driver name passed to
\* sqlx.Connect and the value c.driver holds afterwards
connectSwitch(c) ==
  LET dsn == c.url.text IN
  IF c.driver = <<"mysql">>
  THEN [dsn |-> TrimPrefix(TrimPrefix(dsn, <<"mysql", "://">>), <<"rds-mysql", "://">>),
        driver |-> c.driver, assigned |-> c.driver]
  ELSE IF c.revision = "assignsDriver"
            /\ c.driver \in {<<"clickhouse", "+", "tcp">>, <<"clickhouse", "+", "http">>}
  THEN [dsn |-> TrimPrefix(dsn, <<"clickhouse", "+">>), driver |-> <<"clickhouse">>,
        assigned |-> <<"clickhouse">>]
  ELSE IF c.revision = "assignsDriver" /\ c.driver = <<"clickhouse">>
  THEN [dsn |-> <<"tcp", "://">> \o TrimPrefix(dsn, <<"clickhouse", "://">>),
        driver |-> c.driver, assigned |-> c.driver]
  ELSE [dsn |-> dsn, driver |-> c.driver, assigned |-> c.driver]

\* what a call of connect that opens no handle reports
NoOpen(c, err) == [c |-> c, err |-> err, dsn |-> <<>>, closed |-> 0, panic |-> FALSE]

\* a variant of the held branch that omits `c.conn = nil` after Close: a
\* failed reopen leaves the closed handle in the record
connectHeld_KeepsClosedHandle(c, t, fail, id) ==
  IF HasPrefix(c.url.text, <<"rds-mysql", "://">>) /\ t > c.tokenExpirationTime
  THEN IF fail = "mint"
       THEN NoOpen(c, "failed to refresh RDS MySQL IAM Auth token")
       ELSE LET c1 == [c EXCEPT !.tokenExpirationTime = t + TokenMinutes, !.url.token = t]
                dsn == TrimPrefix(c1.url.text, <<"rds-mysql", "://">>)
            IN IF fail = "open"
               THEN [c |-> c1, err |-> "failed to connect to the database", dsn |-> dsn,
                     closed |-> c.conn.id, panic |-> FALSE]
               ELSE [c |-> [c1 EXCEPT !.conn = Handle(id, t, 0, <<>>)], err |-> "",
                     dsn |-> dsn, closed |-> c.conn.id, panic |-> FALSE]
  ELSE NoOpen(c, "")

\* connect, lines 806-841: the record holds a handle
connectHeld(c, t, fail, id) ==
  IF HasPrefix(c.url.text, <<"rds-mysql", "://">>) /\ t > c.tokenExpirationTime
  THEN IF fail = "mint"
       THEN NoOpen(c, "failed to refresh RDS MySQL IAM Auth token")
       ELSE LET c1 == [c EXCEPT !.conn = NilConn, !.tokenExpirationTime = t + TokenMinutes,
                                !.url.token = t]
                dsn == TrimPrefix(c1.url.text, <<"rds-mysql", "://">>)
            IN IF fail = "open"
               THEN [c |-> c1, err |-> "failed to connect to the database", dsn |-> dsn,
                     closed |-> c.conn.id, panic |-> FALSE]
               ELSE [c |-> [c1 EXCEPT !.conn = Handle(id, t, 0, <<>>)], err |-> "",
                     dsn |-> dsn, closed |-> c.conn.id, panic |-> FALSE]
  ELSE NoOpen(c, "")

\* connect, lines 842-868: key-pair Snowflake without a handle
connectSnowflake(c, t, fail, id) ==
  LET c1 == IF t > c.tokenExpirationTime
            THEN [c EXCEPT !.tokenExpirationTime = t + Hour] ELSE c
      dsn == <<"snowflakeDSN">>
  IN IF fail = "open"
     THEN [c |-> c1, err |-> "failed to open Snowflake connection", dsn |-> dsn,
           closed |-> 0, panic |-> FALSE]
     ELSE IF fail = "ping"
     THEN [c |-> c1, err |-> "failed to ping Snowflake", dsn |-> dsn, closed |-> 0,
           panic |-> FALSE]
     ELSE [c |-> [c1 EXCEPT !.conn = Handle(id, -1, 1, <<>>)], err |-> "", dsn |-> dsn,
           closed |-> 0, panic |-> FALSE]

\* connect, lines 870-895 with connectClickHouse and configureConnection
\* (job.go lines 659-685): the DSN is derived, the handle is opened and the
\* startup SQL is executed by MustExec, which panics when a statement fails;
\* the database refuses a DSN whose IAM token has expired
connectOpen(c, startupSQL, t, fail, id) ==
  LET n == IF c.revision = "localDriver" /\ Contains(c.driver, <<"clickhouse">>)
           THEN connectClickHouse(c) ELSE connectSwitch(c)
      c1 == [c EXCEPT !.driver = n.assigned]
      pings == c.revision = "localDriver" /\ Contains(c.driver, <<"clickhouse">>)
      refused == c.url.token >= 0 /\ t > c.url.token + TokenMinutes
  IN IF fail = "open" \/ (fail = "ping" /\ pings) \/ refused
     THEN [c |-> c1, err |-> "failed to connect", dsn |-> n.dsn, closed |-> 0,
           panic |-> FALSE]
     ELSE IF fail = "startup" /\ startupSQL # <<>>
     THEN [c |-> c1, err |-> "", dsn |-> n.dsn, closed |-> 0, panic |-> TRUE]
     ELSE [c |-> [c1 EXCEPT !.conn = Handle(id, c.url.token, 1, startupSQL)],
           err |-> "",
           dsn |-> n.dsn, closed |-> 0, panic |-> FALSE]

\* connection.connect at time t: fail names the step that fails, id the
\* handle a successful open yields
connect(c, startupSQL, t, fail, id) ==
  IF c.conn # NilConn THEN connectHeld(c, t, fail, id)
  ELSE IF c.driver = <<"snowflake">> /\ c.snowflakeDSN THEN connectSnowflake(c, t, fail, id)
  ELSE connectOpen(c, startupSQL, t, fail, id)

\* no statement has been sent
NoStatement == [handle |-> NilConn, runStart |-> 0]

InitConnect ==
  /\ connection \in Registered
  /\ now = 0
  /\ crash = ""
  /\ \E s \in StartupSQLs :
       trace = [pc |-> "idle", StartupSQL |-> s, registered |-> connection, runStart |-> 0,
                calls |-> 0, opened |-> connection.conn.id, dsns |-> <<>>, closed |-> {}, err |-> "",
                statement |-> NoStatement]

\* the wall clock advances
Tick ==
  /\ crash = ""
  /\ now + TickMinutes <= MaxMinutes
  /\ now' = now + TickMinutes
  /\ UNCHANGED <<connection, trace, crash>>

\* a run begins and starts the activity on the connection
\* (runOnce lines 789-791)
BeginActivity ==
  /\ crash = ""
  /\ trace.pc = "idle"
  /\ trace.calls < MaxConnects
  /\ trace' = [trace EXCEPT !.pc = "connect", !.runStart = now]
  /\ UNCHANGED <<connection, now, crash>>

\* the activity calls conn.connect (runOnceConnection lines 691-697): on an
\* error the activity ends, a panic of MustExec ends the process
ConnectCall ==
  /\ crash = ""
  /\ trace.pc = "connect"
  /\ \E fail \in Failures :
       LET r == connect(connection, trace.StartupSQL, now, fail, trace.opened + 1) IN
       /\ connection' = r.c
       /\ crash' = IF r.panic THEN "panic: MustExec" ELSE ""
       /\ trace' = [trace EXCEPT
            !.pc = IF r.err # "" THEN "idle" ELSE "statement",
            !.calls = @ + 1,
            !.opened = IF r.c.conn.id = @ + 1 THEN @ + 1 ELSE @,
            !.dsns = IF r.dsn = <<>> THEN @ ELSE Append(@, r.dsn),
            !.closed = IF r.closed = 0 THEN @ ELSE @ \cup {r.closed},
            !.err = r.err]
  /\ UNCHANGED now

\* the activity sends a statement on conn.conn (runOnceConnection line 702,
\* Query.Run) and ends
Statement ==
  /\ crash = ""
  /\ trace.pc = "statement"
  /\ trace' = [trace EXCEPT !.pc = "idle",
                            !.statement = [handle |-> connection.conn, runStart |-> trace.runStart]]
  /\ UNCHANGED <<connection, now, crash>>

\* the certificate watcher that SetupMTLS started returns an error:
\* os.Exit(1) (lines 1004-1011)
CertWatcherError ==
  /\ crash = ""
  /\ connection.tlsConfig
  /\ crash' = "exit: cert watcher"
  /\ UNCHANGED <<connection, now, trace>>

\* the variables outside the connection record
offConnectVars ==
  <<labelVars, queryVars, jobVars, outerVars, described, reg, healthz, activities>>

NextConnect ==
  \/ Tick /\ UNCHANGED offConnectVars
  \/ BeginActivity /\ UNCHANGED offConnectVars
  \/ ConnectCall /\ UNCHANGED offConnectVars
  \/ Statement /\ UNCHANGED offConnectVars
  \/ CertWatcherError /\ UNCHANGED offConnectVars

\* nothing is described, registered or probed
ParkedProbe ==
  /\ described = {}
  /\ reg = <<>>
  /\ healthz = <<>>
  /\ activities = <<>>

InitSpecConnect ==
  /\ InitConnect
  /\ ParkedLabels /\ ParkedQueries /\ ParkedJob /\ ParkedRun /\ ParkedSched /\ ParkedCron
  /\ ParkedProbe

SpecConnect == InitSpecConnect /\ [][NextConnect]_vars

----------------------------------------------------------------------------
(* Job.Init and the activity of a run (job.go: Init, runOnceConnection,    *)
(* markFailed) over query lists that hold dropped and invalid entries,     *)
(* with Exporter.Describe and Exporter.Collect (exporter.go).              *)

\* the query lists of the job: a query of the shared dictionary beside a nil
\* entry, beside a query whose reference resolves to nothing, and lists of
\* queries that have neither inline SQL nor a resolvable reference
FailQueryLists ==
  { << ConfigQuery("plain", <<>>, "shared", FALSE), NilQuery >>,
    << ConfigQuery("plain", <<>>, "shared", FALSE), ConfigQuery("noref", <<>>, "missing", FALSE) >>,
    << ConfigQuery("noref", <<>>, "missing", FALSE), ConfigQuery("nosql", <<>>, "", FALSE) >>,
    << ConfigQuery("nosql", <<>>, "", FALSE) >> }

\* Describe has not been called
NotDescribed == [done |-> FALSE, descs |-> {}]

InitFail ==
  /\ \E qs \in FailQueryLists : queries = JobInit(qs, JobName, Iterator, SharedQueries)
  /\ metrics = [qi \in QIdx |-> [c \in Conns |-> <<>>]]
  /\ writing = [qi \in QIdx |-> [c \in Conns |-> NoStore]]
  /\ mutex = [qi \in QIdx |-> ""]
  /\ failedScrapes = [qi \in QIdx |-> [c \in Conns |-> -1]]
  /\ queryCounter = [k \in CounterKeys |-> 0]
  /\ failedQueryCounter = [k \in CounterKeys |-> 0]
  /\ call = [c \in Conns |-> NoCall]
  /\ emitted = [qi \in QIdx |-> [c \in Conns |-> [vec |-> <<>>, at |-> "never"]]]
  /\ stored = [qi \in QIdx |-> [c \in Conns |-> {<<>>}]]
  /\ fatal = FALSE
  /\ runner = [c \in Conns |-> IdleRunner]
  /\ iteratorValues = [c \in Conns |-> <<>>]
  /\ sent = [c \in Conns |-> [qi \in QIdx |-> NoSent]]
  /\ described = NotDescribed

\* Exporter.Describe: the descriptor of every query that has one is sent to
\* the channel; nil entries and queries without descriptor are passed over
Describe ==
  /\ ~fatal
  /\ described' = [done |-> TRUE,
                   descs |-> {queries[qi].desc :
                                qi \in {k \in QIdx : ~queries[k].nil /\ ~queries[k].desc.nil}}]
  /\ UNCHANGED <<labelVars, queryVars, jobVars, outerVars>>
  /\ UNCHANGED <<connection, now, trace, crash, reg, healthz, activities>>

NextFail ==
  \/ \E c \in Conns : StartAttempt(c) /\ UNCHANGED <<labelVars, setupVars, outerVars>>
  \/ \E c \in Conns : ConnectErr(c) /\ UNCHANGED <<labelVars, setupVars, outerVars>>
  \/ \E c \in Conns : ConnectOk(c) /\ UNCHANGED <<labelVars, setupVars, outerVars>>
  \/ \E c \in Conns : IteratorQueryxErr(c) /\ UNCHANGED <<labelVars, setupVars, outerVars>>
  \/ \E c \in Conns : IteratorQueryxOk(c) /\ UNCHANGED <<labelVars, setupVars, outerVars>>
  \/ \E c \in Conns, v \in RunIteratorValues : IteratorRow(c, v)
       /\ UNCHANGED <<labelVars, setupVars, outerVars>>
  \/ \E c \in Conns : IteratorScanErr(c) /\ UNCHANGED <<labelVars, setupVars, outerVars>>
  \/ \E c \in Conns : IteratorEnd(c) /\ UNCHANGED <<labelVars, setupVars, outerVars>>
  \/ \E c \in Conns : SkipQuery(c) /\ UNCHANGED <<labelVars, setupVars, outerVars>>
  \/ \E c \in Conns : RunQuery(c) /\ UNCHANGED <<labelVars, setupVars, outerVars>>
  \/ \E c \in Conns : QueryxOk(c) /\ UNCHANGED <<labelVars, setupVars, jobVars, outerVars>>
  \/ \E c \in Conns : QueryxErr(c) /\ UNCHANGED <<labelVars, setupVars, jobVars, outerVars>>
  \/ \E c \in Conns, row \in JobRows : NextRow(c, row)
       /\ UNCHANGED <<labelVars, setupVars, jobVars, outerVars>>
  \/ \E c \in Conns : EndRows(c) /\ UNCHANGED <<labelVars, setupVars, jobVars, outerVars>>
  \/ \E c \in Conns : BeginStore(c) /\ UNCHANGED <<labelVars, setupVars, jobVars, outerVars>>
  \/ \E c \in Conns : EndStore(c) /\ UNCHANGED <<labelVars, setupVars, jobVars, outerVars>>
  \/ \E c \in Conns : QueryReturned(c) /\ UNCHANGED <<labelVars, setupVars, outerVars>>
  \/ \E c \in Conns : FinishAttempt(c) /\ UNCHANGED <<labelVars, setupVars, outerVars>>
  \/ Collect /\ UNCHANGED <<labelVars, setupVars, jobVars, outerVars>>
  \/ Describe

\* no connection record is under connect, nothing is registered or probed
ParkedConnect ==
  /\ connection = <<>>
  /\ now = 0
  /\ trace = <<>>
  /\ crash = ""
  /\ reg = <<>>
  /\ healthz = <<>>
  /\ activities = <<>>

InitSpecFail == InitFail /\ ParkedLabels /\ ParkedRun /\ ParkedSched /\ ParkedCron /\ ParkedConnect

SpecFail == InitSpecFail /\ [][NextFail]_vars

----------------------------------------------------------------------------
(* Job.updateConnections (job.go) with configureClickHouseTLS and the      *)
(* database filter of postgresql.go: the connection strings of a job are   *)
(* parsed one after the other and a connection record is appended for      *)
(* each connection they yield. A connection string is the parts url.Parse  *)
(* finds in it, its text is composed of them; texts are sequences of the   *)
(* pieces the code tests for.                                              *)

\* a job has at most MaxConnections connection strings
MaxConnections == 2

\* crypto/tls: VersionTLS12
VersionTLS12 == 771

\* a connection string: parses tells whether the parser of its kind
\* (url.Parse, mysql.ParseDSN, ParseCloudSQLUrl) accepts it
ConnString(scheme, user, path, query, parses) ==
  [scheme |-> scheme, user |-> user, host |-> "h", path |-> path, query |-> query,
   parses |-> parses]

RECURSIVE QueryText(_)
\* the text of a query string: k=v pairs joined by "&"
QueryText(q) ==
  IF q = <<>> THEN <<>>
  ELSE <<q[1][1], "=", q[1][2]>> \o (IF Len(q) = 1 THEN <<>> ELSE <<"&">> \o QueryText(Tail(q)))

\* the text of the parts from the host on
HostText(s) ==
  <<s.host>> \o s.path \o (IF s.query = <<>> THEN <<>> ELSE <<"?">> \o QueryText(s.query))

\* url.URL.String(), and the text of the configured string
Text(s) ==
  s.scheme \o <<"://">> \o (IF s.user = <<>> THEN <<>> ELSE s.user \o <<"@">>) \o HostText(s)

\* the connection strings of the jobs
ConnStrings ==
  { ConnString(<<"clickhouse", "+", "https">>, <<>>, <<"/", "db">>,
               << <<"tls_config", "spiffe">>, <<"other", "v">> >>, TRUE),
    ConnString(<<"clickhouse">>, <<>>, <<"/", "db">>,
               << <<"param2", "v">>, <<"tls_config", "spiffe">>, <<"param1", "v">>,
                  <<"tls_config", "other">> >>, TRUE),
    ConnString(<<"clickhouse">>, <<>>, <<"/", "db">>, << <<"tls_config", "custom">> >>, TRUE),
    ConnString(<<"postgres">>, <<"u">>, <<"/", "db">>, << <<"tls_config", "spiffe">> >>, TRUE),
    ConnString(<<"postgres">>, <<"u">>, <<"/", "db">>, <<>>, FALSE),
    ConnString(<<"postgres">>, <<"u">>, <<"/", "include", ":", "db_", ".*">>, <<>>, TRUE),
    ConnString(<<"postgres">>, <<"u">>, <<"/", "/", "include", ":", "db_", ".*">>, <<>>, TRUE),
    ConnString(<<"postgres">>, <<"u">>, <<"/", "exclude", ":", "db_", "1", ",", "other">>,
               <<>>, TRUE),
    ConnString(<<"postgres">>, <<"u">>,
               <<"/", "include", ":", "db_", "1", "/", "exclude", ":", "other">>, <<>>, TRUE),
    ConnString(<<"mysql">>, <<"u">>, <<"/", "db">>, <<>>, TRUE),
    ConnString(<<"rds-mysql">>, <<"u">>, <<"/", "db">>, <<>>, TRUE),
    ConnString(<<"rds-", "postgres">>, <<"u", ":", "AUTHTOKEN">>, <<"/", "db">>, <<>>, TRUE),
    ConnString(<<"cloudsql-postgres">>, <<"u", ":", "pw">>, <<"/", "db">>, <<>>, TRUE) }

\* what the services outside the process answer during the registration:
\* the database listing, the mTLS setup, the token provider, the CloudSQL
\* inventory
Environments ==
  [listing : {"ok", "fail"}, mtls : {"ok", "fail"}, token : {"ok", "fail"},
   inventory : {"ok", "fail"}]

\* the non-template databases of the server, as listDatabases returns them
Databases == << <<"db_", "1">>, <<"db_", "2">>, <<"other">> >>

\* postgresql.go: INCLUDE_DBS and EXCLUDE_DBS
INCLUDE_DBS == <<"/", "include", ":">>

EXCLUDE_DBS == <<"/", "exclude", ":">>

RECURSIVE Split(_, _)
\* strings.Split(s, sep), sep one piece
Split(s, sep) ==
  IF \A k \in 1..Len(s) : s[k] # sep THEN <<s>>
  ELSE LET k == CHOOSE k \in 1..Len(s) : s[k] = sep /\ \A m \in 1..(k - 1) : s[m] # sep
       IN <<SubSeq(s, 1, k - 1)>> \o Split(SubSeq(s, k + 1, Len(s)), sep)

RECURSIVE ReplaceFirst(_, _, _)
\* strings.Replace(s, old, new, 1)
ReplaceFirst(s, old, new) ==
  IF s = <<>> THEN <<>>
  ELSE IF HasPrefix(s, old) THEN new \o SubSeq(s, Len(old) + 1, Len(s))
  ELSE <<Head(s)>> \o ReplaceFirst(Tail(s), old, new)

\* regexp.MatchString for a pattern of literal pieces with an optional ".*"
\* at its end: the pattern is searched for anywhere in the name
MatchString(pattern, name) ==
  LET literal == IF pattern # <<>> /\ pattern[Len(pattern)] = ".*"
                 THEN SubSeq(pattern, 1, Len(pattern) - 1) ELSE pattern
  IN Contains(name, literal)

\* parsePattern
parsePattern(pattern) ==
  IF HasPrefix(pattern, INCLUDE_DBS)
  THEN [mode |-> INCLUDE_DBS, dbs |-> SubSeq(pattern, Len(INCLUDE_DBS) + 1, Len(pattern))]
  ELSE IF HasPrefix(pattern, EXCLUDE_DBS)
  THEN [mode |-> EXCLUDE_DBS, dbs |-> SubSeq(pattern, Len(EXCLUDE_DBS) + 1, Len(pattern))]
  ELSE [mode |-> <<>>, dbs |-> <<>>]

\* filterDatabases
filterDatabases(databases, pattern) ==
  LET p == parsePattern(pattern)
      dbPatterns == Split(p.dbs, ",")
      include(dbname) == \E k \in 1..Len(dbPatterns) : MatchString(dbPatterns[k], dbname)
  IN SelectSeq(databases, LAMBDA dbname :
                 \/ p.mode = INCLUDE_DBS /\ include(dbname)
                 \/ p.mode = EXCLUDE_DBS /\ ~include(dbname))

\* no TLS configuration (c.tlsConfig == nil)
NilTLS == [nil |-> TRUE, MinVersion |-> 0, GetClientCertificate |-> FALSE]

\* url.Values.Del
Del(q, key) == SelectSeq(q, LAMBDA p : p[1] # key)

\* the parameter names of the strings, in the order of sort.Strings
ParamNames == <<"other", "param1", "param2", "tls_config">>

\* url.Values.Encode: the pairs sorted by name
Encode(q) ==
  LET of(k) == SelectSeq(q, LAMBDA p : p[1] = ParamNames[k])
  IN of(1) \o of(2) \o of(3) \o of(4)

\* a variant of configureClickHouseTLS that leaves the query string as it is
configureClickHouseTLS_KeepsParams(s, mtls) ==
  IF ~Contains(Text(s), <<"tls_config", "=", "spiffe">>)
  THEN [TLSConfig |-> NilTLS, ModifiedURL |-> Text(s), Error |-> ""]
  ELSE IF mtls = "fail"
  THEN [TLSConfig |-> NilTLS, ModifiedURL |-> <<>>, Error |-> "mTLS setup failed"]
  ELSE [TLSConfig |-> [nil |-> FALSE, MinVersion |-> VersionTLS12,
                       GetClientCertificate |-> TRUE],
        ModifiedURL |-> Text(s), Error |-> ""]

\* configureClickHouseTLS(conn, originalURL), both the text of s; mtls is
\* the outcome of j.mtlsSetup.SetupMTLS
configureClickHouseTLS(s, mtls) ==
  IF ~Contains(Text(s), <<"tls_config", "=", "spiffe">>)
  THEN [TLSConfig |-> NilTLS, ModifiedURL |-> Text(s), Error |-> ""]
  ELSE IF mtls = "fail"
  THEN [TLSConfig |-> NilTLS, ModifiedURL |-> <<>>, Error |-> "mTLS setup failed"]
  ELSE [TLSConfig |-> [nil |-> FALSE, MinVersion |-> VersionTLS12,
                       GetClientCertificate |-> TRUE],
        ModifiedURL |-> Text([s EXCEPT !.query = Encode(Del(s.query, "tls_config"))]),
        Error |-> ""]

\* a connection record; from is the position of the connection string it
\* was made for
Registration(url, driver, database, user, tls, from) ==
  [url |-> url, driver |-> driver, host |-> "h", database |-> database, user |-> user,
   tlsConfig |-> tls, from |-> from]

\* u.User.Username()
Username(s) == IF s.user = <<>> THEN "" ELSE s.user[1]

\* strings.TrimPrefix(u.Path, "/")
DatabaseOf(s) == TrimPrefix(s.path, <<"/">>)

\* the result of one iteration of the loop: the records it appends and
\* whether it leaves updateConnections
Yield(conns, stop) == [conns |-> conns, stop |-> stop]

\* lines 310-416: a CloudSQL string without a glob
registerCloudSQL(s, env, i) ==
  IF ~s.parses \/ env.inventory = "fail" THEN Yield(<<>>, FALSE)
  ELSE Yield(<<Registration(<<"host=", "h", "user=", Username(s), "dbname=">> \o DatabaseOf(s),
                            s.scheme, DatabaseOf(s), Username(s), NilTLS, i)>>, FALSE)

\* lines 418-466: mysql:// and rds-mysql://
registerMySQL(s, env, i) ==
  LET isRDS == HasPrefix(Text(s), <<"rds-mysql", "://">>)
      dsn == (IF s.user = <<>> THEN <<>> ELSE s.user \o <<"@">>) \o HostText(s)
  IN IF ~s.parses \/ (isRDS /\ env.token = "fail") THEN Yield(<<>>, FALSE)
     ELSE Yield(<<Registration(IF isRDS THEN <<"rds-mysql", "://">> \o dsn ELSE dsn,
                               <<"mysql">>, DatabaseOf(s), Username(s), NilTLS, i)>>, FALSE)

\* lines 527-671: the connection a URL names, with the ClickHouse TLS hook
registerURL(s, env, i) ==
  IF ~s.parses THEN Yield(<<>>, FALSE)
  ELSE IF Contains(s.scheme, <<"clickhouse">>)
  THEN LET tlsResult == configureClickHouseTLS(s, env.mtls)
       IN IF tlsResult.Error # "" THEN Yield(<<>>, FALSE)
          ELSE Yield(<<Registration(tlsResult.ModifiedURL, s.scheme, DatabaseOf(s),
                                    Username(s), tlsResult.TLSConfig, i)>>, FALSE)
  ELSE Yield(<<Registration(Text(s), s.scheme, DatabaseOf(s), Username(s), NilTLS, i)>>,
             FALSE)

\* lines 487-525: postgres:// and pg://, one connection per filtered
\* database when the path names a filter
registerPostgres(s, env, i) ==
  IF ~s.parses THEN Yield(<<>>, FALSE)
  ELSE IF Contains(s.path, <<"include">>) /\ Contains(s.path, <<"exclude">>)
  THEN Yield(<<>>, TRUE)
  ELSE IF Contains(s.path, <<"include">>) \/ Contains(s.path, <<"exclude">>)
  THEN IF env.listing = "fail" THEN Yield(<<>>, FALSE)
       ELSE LET filteredDBs == filterDatabases(Databases, s.path)
            IN Yield([k \in 1..Len(filteredDBs) |->
                        Registration(Text([s EXCEPT !.path = <<"/">> \o filteredDBs[k]]),
                                     s.scheme, filteredDBs[k], Username(s), NilTLS, i)],
                     FALSE)
  ELSE registerURL(s, env, i)

\* lines 468-485: rds-postgres:// becomes a postgres URL with the token in
\* the place of AUTHTOKEN
registerRDSPostgres(s, env, i) ==
  IF ~s.parses \/ env.token = "fail" THEN Yield(<<>>, FALSE)
  ELSE registerPostgres([s EXCEPT !.scheme = TrimPrefix(s.scheme, <<"rds-">>),
                                  !.user = ReplaceFirst(s.user, <<"AUTHTOKEN">>, <<"token">>)],
                        env, i)

\* the body of the loop of updateConnections for the string at position i
registerString(s, env, i) ==
  IF HasPrefix(Text(s), <<"cloudsql-postgres">>) \/ HasPrefix(Text(s), <<"cloudsql-mysql">>)
  THEN registerCloudSQL(s, env, i)
  ELSE IF HasPrefix(Text(s), <<"rds-mysql", "://">>) \/ HasPrefix(Text(s), <<"mysql", "://">>)
  THEN registerMySQL(s, env, i)
  ELSE IF HasPrefix(Text(s), <<"rds-", "postgres", "://">>)
  THEN registerRDSPostgres(s, env, i)
  ELSE IF HasPrefix(Text(s), <<"postgres", "://">>) \/ HasPrefix(Text(s), <<"pg", "://">>)
  THEN registerPostgres(s, env, i)
  ELSE registerURL(s, env, i)

\* the lists of connection strings of a job
ConnectionLists == UNION { [1..n -> ConnStrings] : n \in 0..MaxConnections }

InitRegister ==
  /\ \E cs \in ConnectionLists, env \in Environments :
       reg = [Connections |-> cs, env |-> env, next |-> 1, conns |-> <<>>, pc |-> "loop"]

\* one iteration of the loop of updateConnections (lines 308-672), entered
\* when len(j.conns) < len(j.Connections)
RegisterString ==
  /\ reg.pc = "loop"
  /\ Len(reg.conns) < Len(reg.Connections) \/ reg.next > 1
  /\ reg.next <= Len(reg.Connections)
  /\ LET y == registerString(reg.Connections[reg.next], reg.env, reg.next) IN
     reg' = [reg EXCEPT !.conns = @ \o y.conns, !.next = @ + 1,
                        !.pc = IF y.stop THEN "done" ELSE "loop"]

\* the loop has passed the last string: updateConnections returns
RegisterReturn ==
  /\ reg.pc = "loop"
  /\ reg.next > Len(reg.Connections)
     \/ (reg.next = 1 /\ Len(reg.conns) >= Len(reg.Connections))
  /\ reg' = [reg EXCEPT !.pc = "done"]

\* the variables outside the registration
offRegisterVars ==
  <<labelVars, queryVars, jobVars, outerVars, connection, now, trace, crash, described, healthz,
    activities>>

NextRegister ==
  \/ RegisterString /\ UNCHANGED offRegisterVars
  \/ RegisterReturn /\ UNCHANGED offRegisterVars

InitSpecRegister ==
  /\ InitRegister
  /\ ParkedLabels /\ ParkedQueries /\ ParkedJob /\ ParkedRun /\ ParkedSched /\ ParkedCron
  /\ connection = <<>> /\ now = 0 /\ trace = <<>> /\ crash = ""
  /\ described = {} /\ healthz = <<>> /\ activities = <<>>

SpecRegister == InitSpecRegister /\ [][NextRegister]_vars

----------------------------------------------------------------------------
(* The /healthz handler of main.go: with -db.connectivity-as-healthz it    *)
(* walks the jobs of the exporter and the connection records of each job,  *)
(* pings a record that holds a handle and calls connect on one that does   *)
(* not. net/http recovers a panic of the handler and closes the            *)
(* connection of the request without an answer.                            *)

\* an exporter has at most MaxHealthJobs jobs
MaxHealthJobs == 2

\* net/http: StatusOK and StatusInternalServerError
StatusOK == 200

StatusInternalServerError == 500

\* an entry of job.conns: a record, or nil
ConnEntry(c) == [nil |-> FALSE, c |-> c]

NilEntry == [nil |-> TRUE, c |-> <<>>]

\* an entry of exporter.jobs: a job, or nil
HealthJob(startupSQL, conns) == [nil |-> FALSE, StartupSQL |-> startupSQL, conns |-> conns]

NilJob == [nil |-> TRUE, StartupSQL |-> <<>>, conns |-> <<>>]

\* a record that holds the handle of an earlier run
Held(c) == [c EXCEPT !.conn = Handle(1, c.url.token, 1, <<>>)]

\* the jobs of the exporters
HealthJobs ==
  LET pg == NewConn("localDriver", <<"postgres">>, UrlOf(<<"postgres">>), -1, ZeroTime,
                    FALSE, FALSE)
      sf == NewConn("localDriver", <<"snowflake">>, UrlOf(<<"snowflake">>), -1, Hour, TRUE,
                    FALSE)
      ch == NewConn("localDriver", <<"clickhouse">>, UrlOf(<<"clickhouse">>), -1, ZeroTime,
                    FALSE, FALSE)
  IN { NilJob,
       HealthJob(<<>>, <<>>),
       HealthJob(<<>>, <<ConnEntry(pg)>>),
       HealthJob(<<"set">>, <<ConnEntry(Held(pg)), ConnEntry(pg)>>),
       HealthJob(<<>>, <<NilEntry, ConnEntry(sf)>>),
       HealthJob(<<"set">>, <<ConnEntry(Held(ch)), ConnEntry(Held(sf))>>),
       HealthJob(<<>>, <<ConnEntry(ch), ConnEntry(Held(pg))>>) }

\* no answer has been written
NoAnswer == [code |-> 0, text |-> ""]

InitHealth ==
  /\ \E flag \in BOOLEAN, n \in 1..MaxHealthJobs : \E js \in [1..n -> HealthJobs] :
       healthz = [dbConnectivityAsHealthCheck |-> flag, jobs |-> js, pc |-> "idle",
                  job |-> 1, connection |-> 1, visits |-> <<>>, answer |-> NoAnswer]

\* GET /healthz arrives; without the flag the handler answers OK
Request ==
  /\ healthz.pc = "idle"
  /\ healthz' = IF healthz.dbConnectivityAsHealthCheck
                THEN [healthz EXCEPT !.pc = "loop", !.job = 1, !.connection = 1,
                                     !.visits = <<>>, !.answer = NoAnswer]
                ELSE [healthz EXCEPT !.pc = "answered",
                                     !.answer = [code |-> StatusOK, text |-> "OK"]]

\* the entry the loops are at
AtEntry ==
  /\ healthz.pc = "loop"
  /\ healthz.job <= Len(healthz.jobs)
  /\ ~healthz.jobs[healthz.job].nil
  /\ healthz.connection <= Len(healthz.jobs[healthz.job].conns)

\* the outer loop skips a nil job and leaves a job whose records are done
NextJob ==
  /\ healthz.pc = "loop"
  /\ healthz.job <= Len(healthz.jobs)
  /\ \/ healthz.jobs[healthz.job].nil
     \/ healthz.connection > Len(healthz.jobs[healthz.job].conns)
  /\ healthz' = [healthz EXCEPT !.job = @ + 1, !.connection = 1]

\* the inner loop skips a nil record
SkipNil ==
  /\ AtEntry
  /\ healthz.jobs[healthz.job].conns[healthz.connection].nil
  /\ healthz' = [healthz EXCEPT !.connection = @ + 1]

\* what a visit leaves behind
Visit(kind, err, panic) ==
  [job |-> healthz.job, connection |-> healthz.connection, kind |-> kind, err |-> err,
   panic |-> panic,
   held |-> healthz.jobs[healthz.job].conns[healthz.connection].c.conn # NilConn]

\* connection.conn.Ping() on a record that holds a handle
PingHeld ==
  /\ AtEntry
  /\ LET e == healthz.jobs[healthz.job].conns[healthz.connection] IN
     /\ ~e.nil
     /\ e.c.conn # NilConn
     /\ \E err \in {"", "ping: bad connection"} :
          healthz' =
            IF err # ""
            THEN [healthz EXCEPT
                    !.visits = Append(@, Visit("ping", err, FALSE)),
                    !.answer = [code |-> StatusInternalServerError, text |-> err],
                    !.pc = "answered"]
            ELSE [healthz EXCEPT
                    !.visits = Append(@, Visit("ping", err, FALSE)),
                    !.connection = @ + 1]

\* connection.connect(job) on a record without a handle
ConnectNil ==
  /\ AtEntry
  /\ LET e == healthz.jobs[healthz.job].conns[healthz.connection] IN
     /\ ~e.nil
     /\ e.c.conn = NilConn
     /\ \E fail \in Failures :
          LET r == connect(e.c, healthz.jobs[healthz.job].StartupSQL, 0, fail,
                           Len(healthz.visits) + 2)
              visited == [healthz EXCEPT
                           !.jobs[healthz.job].conns[healthz.connection].c = r.c,
                           !.visits = Append(@, Visit("connect", r.err, r.panic))]
          IN healthz' =
               IF r.panic THEN [visited EXCEPT !.pc = "panicked"]
               ELSE IF r.err # ""
               THEN [visited EXCEPT
                       !.answer = [code |-> StatusInternalServerError, text |-> r.err],
                       !.pc = "answered"]
               ELSE [visited EXCEPT !.connection = @ + 1]

\* both loops are done: the handler answers OK
AnswerOK ==
  /\ healthz.pc = "loop"
  /\ healthz.job > Len(healthz.jobs)
  /\ healthz' = [healthz EXCEPT !.pc = "answered",
                                !.answer = [code |-> StatusOK, text |-> "OK"]]

\* the variables outside the handler
offHealthVars ==
  <<labelVars, queryVars, jobVars, outerVars, connection, now, trace, crash, described, reg,
    activities>>

NextHealth ==
  \/ Request /\ UNCHANGED offHealthVars
  \/ NextJob /\ UNCHANGED offHealthVars
  \/ SkipNil /\ UNCHANGED offHealthVars
  \/ PingHeld /\ UNCHANGED offHealthVars
  \/ ConnectNil /\ UNCHANGED offHealthVars
  \/ AnswerOK /\ UNCHANGED offHealthVars

InitSpecHealth ==
  /\ InitHealth
  /\ ParkedLabels /\ ParkedQueries /\ ParkedJob /\ ParkedRun /\ ParkedSched /\ ParkedCron
  /\ connection = <<>> /\ now = 0 /\ trace = <<>> /\ crash = ""
  /\ described = {} /\ reg = <<>> /\ activities = <<>>

SpecHealth == InitSpecHealth /\ [][NextHealth]_vars

----------------------------------------------------------------------------
(* Goroutines that share a connection record: runOnce starts one           *)
(* runOnceConnection per record for every call of Job.Run (two calls of    *)
(* the cron scheduler can overlap), and the /healthz handler walks the     *)
(* same records. connect takes no lock: its test of c.conn, the opening of *)
(* the handle and the assignment to c.conn are separate steps.             *)

\* the goroutines: the activities of two runs of the job and the handler
Goroutines == {"run1", "run2", "probe"}

\* a goroutine calls connect at most MaxCalls times
MaxCalls == 2

IdleGoroutine == [pc |-> "idle", calls |-> 0, conn |-> NilConn, err |-> ""]

InitShared ==
  /\ connection \in {c \in Registered :
                       c.revision = "localDriver" /\ c.conn = NilConn /\ c.url.token = -1}
  /\ now = 0
  /\ crash = ""
  /\ \E s \in StartupSQLs : trace = [StartupSQL |-> s, opened |-> 0, lost |-> {}]
  /\ activities = [a \in Goroutines |-> IdleGoroutine]

\* runOnceConnection calls conn.connect (job.go line 691); the handler
\* reaches the record (main.go line 79)
CallConnect(a) ==
  /\ crash = ""
  /\ activities[a].pc = "idle"
  /\ activities[a].calls < MaxCalls
  /\ activities' = [activities EXCEPT ![a].pc = IF a = "probe" THEN "handler" ELSE "check",
                                      ![a].calls = @ + 1, ![a].err = ""]
  /\ UNCHANGED <<connection, now, trace, crash>>

\* the handler tests connection.conn: Ping on a handle, connect otherwise
\* (main.go lines 85-96)
HandlerTest ==
  /\ crash = ""
  /\ activities["probe"].pc = "handler"
  /\ activities' = [activities EXCEPT
       !["probe"].pc = IF connection.conn # NilConn THEN "idle" ELSE "check"]
  /\ UNCHANGED <<connection, now, trace, crash>>

\* connect tests c.conn (job.go line 807): a record that holds a handle is
\* left as it is
TestHandle(a) ==
  /\ crash = ""
  /\ activities[a].pc = "check"
  /\ activities' = [activities EXCEPT
       ![a].pc = IF connection.conn # NilConn THEN "idle" ELSE "open"]
  /\ UNCHANGED <<connection, now, trace, crash>>

\* connect opens a handle and configures it (lines 842-893), on the record
\* as TestHandle found it
OpenHandle(a) ==
  /\ crash = ""
  /\ activities[a].pc = "open"
  /\ \E fail \in Failures :
       LET r == connect([connection EXCEPT !.conn = NilConn], trace.StartupSQL, now, fail,
                        trace.opened + 1)
       IN /\ crash' = IF r.panic THEN "panic: MustExec" ELSE ""
          /\ connection' = [r.c EXCEPT !.conn = connection.conn]
          /\ IF r.err # "" \/ r.panic
             THEN /\ activities' = [activities EXCEPT ![a].pc = "idle", ![a].err = r.err]
                  /\ UNCHANGED trace
             ELSE /\ activities' = [activities EXCEPT ![a].pc = "store", ![a].conn = r.c.conn]
                  /\ trace' = [trace EXCEPT !.opened = @ + 1]
  /\ UNCHANGED now

\* c.conn = conn (lines 865, 877, 893): whatever c.conn holds is replaced
StoreHandle(a) ==
  /\ crash = ""
  /\ activities[a].pc = "store"
  /\ connection' = [connection EXCEPT !.conn = activities[a].conn]
  /\ trace' = [trace EXCEPT
       !.lost = IF connection.conn # NilConn THEN @ \cup {connection.conn.id} ELSE @]
  /\ activities' = [activities EXCEPT ![a].pc = "idle", ![a].conn = NilConn]
  /\ UNCHANGED <<now, crash>>

\* the variables outside the shared record
offSharedVars == <<labelVars, queryVars, jobVars, outerVars, described, reg, healthz>>

NextShared ==
  \/ \E a \in Goroutines : CallConnect(a) /\ UNCHANGED offSharedVars
  \/ HandlerTest /\ UNCHANGED offSharedVars
  \/ \E a \in Goroutines : TestHandle(a) /\ UNCHANGED offSharedVars
  \/ \E a \in Goroutines : OpenHandle(a) /\ UNCHANGED offSharedVars
  \/ \E a \in Goroutines : StoreHandle(a) /\ UNCHANGED offSharedVars

InitSpecShared ==
  /\ InitShared
  /\ ParkedLabels /\ ParkedQueries /\ ParkedJob /\ ParkedRun /\ ParkedSched /\ ParkedCron
  /\ described = {} /\ reg = <<>> /\ healthz = <<>>

SpecShared == InitSpecShared /\ [][NextShared]_vars

----------------------------------------------------------------------------
(* The done channel of Job.runOnce: a channel with one slot per connection *)
(* record; every runOnceConnection sends its count once, from a deferred   *)
(* function that also runs when the goroutine panics, and runOnce receives *)
(* one count per record.                                                   *)

\* the connection records a job may hold
DoneConns == {"c1", "c2", "c3"}

\* make(chan int, len(j.conns)) with room for a single count
DoneCapacity_One(conns) == 1

\* make(chan int, len(j.conns)) (runOnce line 778)
DoneCapacity(conns) == Cardinality(conns)

\* the counts an activity can end its query loop with
Counts == 0..2

ActivityIdle == [pc |-> "idle", updated |-> 0, sends |-> 0]

InitDone ==
  /\ crash = ""
  /\ now = 0
  /\ connection = <<>>
  /\ \E conns \in SUBSET DoneConns :
       trace = [conns |-> conns, pc |-> "idle", attempts |-> 0, capacity |-> 0,
                doneChan |-> <<>>, spawn |-> {}, received |-> 0, updated |-> 0, err |-> ""]
  /\ activities = [c \in DoneConns |-> ActivityIdle]

\* runOnce makes the channel (lines 777-786)
MakeDoneChan ==
  /\ crash = ""
  /\ trace.pc = "idle"
  /\ trace.attempts < MaxAttempts
  /\ trace' = [trace EXCEPT !.pc = "spawn", !.attempts = @ + 1,
                            !.capacity = DoneCapacity(trace.conns), !.doneChan = <<>>,
                            !.spawn = trace.conns, !.received = 0, !.updated = 0, !.err = ""]
  /\ activities' = [c \in DoneConns |-> ActivityIdle]
  /\ UNCHANGED <<connection, now, crash>>

\* go j.runOnceConnection(ctx, conn, doneChan) (lines 789-791)
Go(c) ==
  /\ crash = ""
  /\ trace.pc = "spawn"
  /\ c \in trace.spawn
  /\ trace' = [trace EXCEPT !.spawn = @ \ {c}]
  /\ activities' = [activities EXCEPT ![c].pc = "connect"]
  /\ UNCHANGED <<connection, now, crash>>

\* the loop of go statements has ended (line 793)
AllStarted ==
  /\ crash = ""
  /\ trace.pc = "spawn"
  /\ trace.spawn = {}
  /\ trace' = [trace EXCEPT !.pc = "receive"]
  /\ UNCHANGED <<connection, now, crash, activities>>

\* conn.connect (lines 691-697): an error returns, MustExec or markFailed
\* may panic
ActivityConnect(c) ==
  /\ crash = ""
  /\ activities[c].pc = "connect"
  /\ \E outcome \in {"iterator", "return", "panic"} :
       activities' = [activities EXCEPT ![c].pc = outcome]
  /\ UNCHANGED <<connection, now, crash, trace>>

\* the iterator SQL and its rows (lines 700-727): an error returns,
\* markFailed may panic
ActivityIterator(c) ==
  /\ crash = ""
  /\ activities[c].pc = "iterator"
  /\ \E outcome \in {"queries", "return", "panic"} :
       activities' = [activities EXCEPT ![c].pc = outcome]
  /\ UNCHANGED <<connection, now, crash, trace>>

\* the query loop (lines 729-756) ends with updated queries run
ActivityQueries(c) ==
  /\ crash = ""
  /\ activities[c].pc = "queries"
  /\ \E n \in Counts : activities' = [activities EXCEPT ![c].pc = "return", ![c].updated = n]
  /\ UNCHANGED <<connection, now, crash, trace>>

\* the deferred done <- updated (lines 686-688), on return and on panic; it
\* waits while the channel is full
DeferredSend(c) ==
  /\ crash = ""
  /\ activities[c].pc \in {"return", "panic"}
  /\ Len(trace.doneChan) < trace.capacity
  /\ trace' = [trace EXCEPT !.doneChan = Append(@, activities[c].updated)]
  /\ activities' = [activities EXCEPT
       ![c].pc = IF activities[c].pc = "panic" THEN "panicking" ELSE "ended",
       ![c].sends = @ + 1]
  /\ UNCHANGED <<connection, now, crash>>

\* the panic of a goroutine ends the process
PanicExit(c) ==
  /\ crash = ""
  /\ activities[c].pc = "panicking"
  /\ crash' = "panic"
  /\ UNCHANGED <<connection, now, trace, activities>>

\* updated += <-doneChan (lines 795-797)
ReceiveCount ==
  /\ crash = ""
  /\ trace.pc = "receive"
  /\ trace.received < Cardinality(trace.conns)
  /\ trace.doneChan # <<>>
  /\ trace' = [trace EXCEPT !.doneChan = Tail(@), !.received = @ + 1,
                            !.updated = @ + Head(trace.doneChan)]
  /\ UNCHANGED <<connection, now, crash, activities>>

\* runOnce returns (lines 799-802)
ReturnRunOnce ==
  /\ crash = ""
  /\ trace.pc = "receive"
  /\ trace.received = Cardinality(trace.conns)
  /\ trace' = [trace EXCEPT !.pc = "idle", !.err = runOnceResult(trace.updated)]
  /\ UNCHANGED <<connection, now, crash, activities>>

\* the variables outside runOnce and its goroutines
offDoneVars == <<labelVars, queryVars, jobVars, outerVars, described, reg, healthz>>

NextDone ==
  \/ MakeDoneChan /\ UNCHANGED offDoneVars
  \/ \E c \in DoneConns : Go(c) /\ UNCHANGED offDoneVars
  \/ AllStarted /\ UNCHANGED offDoneVars
  \/ \E c \in DoneConns : ActivityConnect(c) /\ UNCHANGED offDoneVars
  \/ \E c \in DoneConns : ActivityIterator(c) /\ UNCHANGED offDoneVars
  \/ \E c \in DoneConns : ActivityQueries(c) /\ UNCHANGED offDoneVars
  \/ \E c \in DoneConns : DeferredSend(c) /\ UNCHANGED offDoneVars
  \/ \E c \in DoneConns : PanicExit(c) /\ UNCHANGED offDoneVars
  \/ ReceiveCount /\ UNCHANGED offDoneVars
  \/ ReturnRunOnce /\ UNCHANGED offDoneVars

InitSpecDone ==
  /\ InitDone
  /\ ParkedLabels /\ ParkedQueries /\ ParkedJob /\ ParkedRun /\ ParkedSched /\ ParkedCron
  /\ described = {} /\ reg = <<>> /\ healthz = <<>>

SpecDone == InitSpecDone /\ [][NextDone]_vars

----------------------------------------------------------------------------
(* The state an execution of a query touches: the cache q.metrics, a map   *)
(* of each Query keyed by the connection record, and the gauge vector      *)
(* failedScrapes, whose series are named by the label values driver, host, *)
(* database, user of the connection and sql_job, query of the query.       *)

\* the exporter executes at most MaxExecutions queries
MaxExecutions == 3

\* the connection records of the jobs "j" and "k": two strings of job "j"
\* name the same server, database and user and differ in a parameter
FrameConns ==
  [ca |-> [jobName |-> "j", labels |-> Conn1],
   cb |-> [jobName |-> "j", labels |-> Conn1],
   cc |-> [jobName |-> "j", labels |-> Conn2],
   cd |-> [jobName |-> "k", labels |-> Conn1]]

\* the queries of the jobs
FrameQueries ==
  << [jobName |-> "j", Name |-> "q1", AllowZeroRows |-> FALSE, described |-> TRUE],
     [jobName |-> "j", Name |-> "q2", AllowZeroRows |-> TRUE, described |-> TRUE],
     [jobName |-> "k", Name |-> "q1", AllowZeroRows |-> FALSE, described |-> FALSE] >>

\* the (query, connection) pairs: a job runs its queries on its connections
Pairs ==
  {p \in (1..Len(FrameQueries)) \X DOMAIN FrameConns :
     FrameQueries[p[1]].jobName = FrameConns[p[2]].jobName}

\* the label values of failedScrapes.WithLabelValues(conn.driver, conn.host,
\* conn.database, conn.user, q.jobName, q.Name)
SeriesOf(qi, c) ==
  <<FrameConns[c].labels.driver, FrameConns[c].labels.host, FrameConns[c].labels.database,
    FrameConns[c].labels.user, FrameQueries[qi].jobName, FrameQueries[qi].Name>>

\* what the database does with the statement of an execution
Outcomes == {"queryErr", "noRows", "rows"}

InitFrame ==
  /\ queries = FrameQueries
  /\ metrics = [p \in Pairs |-> <<>>]
  /\ failedScrapes = [s \in {SeriesOf(p[1], p[2]) : p \in Pairs} |-> -1]
  /\ trace = [executions |-> 0, q |-> 0, c |-> "", outcome |-> ""]

\* a variant of Execute that marks every query of the job on an error
Execute_MarksJob(qi, c, outcome) ==
  LET q == queries[qi]
      series == SeriesOf(qi, c)
      samples == <<[q |-> qi, c |-> c, execution |-> trace.executions + 1]>>
  IN /\ trace.executions < MaxExecutions
     /\ trace' = [executions |-> trace.executions + 1, q |-> qi, c |-> c, outcome |-> outcome]
     /\ IF ~q.described
        THEN UNCHANGED <<metrics, failedScrapes>>
        ELSE IF outcome = "queryErr" \/ (outcome = "noRows" /\ ~q.AllowZeroRows)
        THEN /\ failedScrapes' =
                  [s \in DOMAIN failedScrapes |-> IF s[5] = q.jobName THEN 1 ELSE failedScrapes[s]]
             /\ UNCHANGED metrics
        ELSE /\ failedScrapes' = [failedScrapes EXCEPT ![series] = 0]
             /\ metrics' = [metrics EXCEPT
                  ![<<qi, c>>] = IF outcome = "rows" THEN samples ELSE <<>>]
     /\ UNCHANGED queries

\* Query.Run / Query.RunIterator as one step (query.go lines 15-81, 84-152):
\* a query without descriptor returns at once; a Queryx error, or no row
\* without allow_zero_rows, sets the gauge to 1 and leaves the cache; else
\* the gauge is set to 0 and the vector is stored
Execute(qi, c, outcome) ==
  LET q == queries[qi]
      series == SeriesOf(qi, c)
      samples == <<[q |-> qi, c |-> c, execution |-> trace.executions + 1]>>
  IN /\ trace.executions < MaxExecutions
     /\ trace' = [executions |-> trace.executions + 1, q |-> qi, c |-> c, outcome |-> outcome]
     /\ IF ~q.described
        THEN UNCHANGED <<metrics, failedScrapes>>
        ELSE IF outcome = "queryErr" \/ (outcome = "noRows" /\ ~q.AllowZeroRows)
        THEN /\ failedScrapes' = [failedScrapes EXCEPT ![series] = 1]
             /\ UNCHANGED metrics
        ELSE /\ failedScrapes' = [failedScrapes EXCEPT ![series] = 0]
             /\ metrics' = [metrics EXCEPT
                  ![<<qi, c>>] = IF outcome = "rows" THEN samples ELSE <<>>]
     /\ UNCHANGED queries

\* the variables an execution does not touch
offFrameVars ==
  <<labelVars, jobVars, outerVars, writing, mutex, queryCounter, failedQueryCounter, call,
    emitted, stored, fatal, connection, now, crash, described, reg, healthz, activities>>

NextFrame ==
  \E p \in Pairs, outcome \in Outcomes : Execute(p[1], p[2], outcome) /\ UNCHANGED offFrameVars

InitSpecFrame ==
  /\ InitFrame
  /\ ParkedLabels /\ ParkedJob /\ ParkedRun /\ ParkedSched /\ ParkedCron
  /\ writing = <<>> /\ mutex = <<>> /\ queryCounter = <<>> /\ failedQueryCounter = <<>>
  /\ call = [c \in Conns |-> NoCall] /\ emitted = <<>> /\ stored = <<>> /\ fatal = FALSE
  /\ connection = <<>> /\ now = 0 /\ crash = ""
  /\ described = {} /\ reg = <<>> /\ healthz = <<>> /\ activities = <<>>

SpecFrame == InitSpecFrame /\ [][NextFrame]_vars

----------------------------------------------------------------------------
(* Claims about Job.Run and Job.runOnce (SpecRun).                         *)

\* a step in which the activity on connection c begins the execution of a
\* query: q.Run or q.RunIterator is called and goes on to send its SQL
ExecutionBegins(c) == call[c].pc = "none" /\ call'[c].pc = "query"

\* C12: the work of a run is bounded by its deadline: once the deadline has
\* elapsed, no activity of the run begins the execution of a query and none
\* stores a result in the cache.
C12_DeadlineBoundsWork ==
  [][deadline = "elapsed" =>
       /\ \A c \in RunConns : ~ExecutionBegins(c)
       /\ metrics' = metrics]_vars

\* C13: while Job.Run executes, its retry window is one minute when the job
\* is driven by the cron scheduler, whatever its interval, and the job's
\* interval when it is driven by the interval loop.
C13_RetryWindow ==
  run.pc # "idle" =>
    /\ ClockOf(jobCfg) = "cron" => run.max = Minute
    /\ ClockOf(jobCfg) = "loop" /\ jobCfg.Interval > 0 => run.max = jobCfg.Interval

\* the successful query executions on connection c in its last activity,
\* counted from the log of the calls
Successes(c) == Cardinality({qi \in QIdx : sent[c][qi].done /\ sent[c][qi].err = ""})

\* summed over the connections of the job
SuccessesOfAttempt == Successes("c1") + Successes("c2")

\* C14: once runOnce has returned, its error is "zero queries ran" exactly
\* when no query execution of the attempt succeeded on any connection, and
\* Run is on its way to a further attempt of the tick only after that error.
C14_ZeroQueriesRan ==
  /\ run.pc # "wait" /\ run.total > 0 =>
       (run.err = "zero queries ran" <=> SuccessesOfAttempt = 0)
  /\ (run.pc \in {"nextBackOff", "sleep"} \/ (run.pc = "call" /\ run.attempts > 0)) =>
       run.err = "zero queries ran"

\* a job with two connections: the first attempt of the tick ran no query,
\* the second one succeeded on one connection and failed on the other
C14_Witness ==
  /\ jobCfg.conns = {"c1", "c2"}
  /\ run.pc = "idle"
  /\ run.attempts = 2
  /\ run.err = ""
  /\ Successes("c1") = 1
  /\ Successes("c2") = 0
  /\ sent["c2"][1].done

\* C15: every invocation of Job.Run returns: whenever Run is executing,
\* the job is idle again later.
C15_RunReturnsToIdle == (run.pc # "idle") ~> (run.pc = "idle")

----------------------------------------------------------------------------
(* Claims about the clocks of the jobs and the scrape path (SpecSched).    *)

\* NewExporter has dispatched the i-th job of the file
Dispatched(i) == exporter.pc \in {"dispatch", "serving"} /\ exporter.next > i

\* C16: a dispatched job is an entry of the cron scheduler exactly when its
\* cron_schedule parsed, whatever its interval, and has its own interval loop
\* exactly when it is no such entry; a job that is not dispatched has neither;
\* the cron scheduler runs only jobs with a schedule and the loop only jobs
\* without.
C16_ExactlyOneClock ==
  \A i \in 1..Len(SchedJobs) :
    LET j == SchedJobs[i]
        parsed == yaml[j].cron_schedule = "valid"
    IN /\ Dispatched(i) => /\ j \in exporter.cronEntries <=> parsed
                           /\ loops[j] # "none" <=> j \notin exporter.cronEntries
       /\ ~Dispatched(i) => j \notin exporter.cronEntries /\ loops[j] = "none"
       /\ runsLog[j].cron > 0 => parsed
       /\ runsLog[j].loop > 0 => ~parsed

\* a job with a cron schedule and an interval has been fired by the cron
\* scheduler and has no loop, while the other job runs in its loop
C16_Witness ==
  /\ yaml["j1"] = [interval |-> ConfiguredInterval, cron_schedule |-> "valid"]
  /\ runsLog["j1"].cron > 0
  /\ loops["j1"] = "none"
  /\ runsLog["j2"].loop > 0
  /\ "j2" \notin exporter.cronEntries

\* the scrapes that pulled the trigger of job j
PulledBy(j) == {s \in Scrapes : j \in scrapes[s].trig}

\* C17: an on-demand job never runs on its own: it has begun no more runs
\* than scrapes have pulled its trigger, none of them by a loop or by the
\* cron scheduler.
C17_OnDemandRunsOnlyWhenTriggered ==
  exporter.pc \in {"dispatch", "serving"} =>
    \A j \in JobIds :
      OnDemand(jobs[j]) =>
        /\ runsLog[j].loop + runsLog[j].cron + runsLog[j].trigger <= Cardinality(PulledBy(j))
        /\ runsLog[j].loop = 0
        /\ runsLog[j].cron = 0

\* C18: when the metrics handler has been invoked for a scrape, every
\* on-demand job was sent the trigger of this scrape and has signalled that
\* the triggered run is complete, and the response holds no cache state from
\* before that completion.
C18_HandlerAfterTriggeredRuns ==
  \A s \in Scrapes :
    scrapes[s].pc = "served" =>
      \A j \in JobIds :
        OnDemand(jobs[j]) =>
          /\ j \in scrapes[s].trig
          /\ j \in scrapes[s].done
          /\ workers[j].log[s] > 0
          /\ scrapes[s].response[j] >= workers[j].log[s]

\* two on-demand jobs: a scrape was answered after both had run for it
C18_Witness ==
  /\ scrapes["s1"].pc = "served"
  /\ \A j \in JobIds : OnDemand(jobs[j])
  /\ scrapes["s1"].done = {"j1", "j2"}
  /\ \A j \in JobIds : workers[j].log["s1"] > 0

\* C39: the scrape handler triggers and waits for exactly the on-demand
\* jobs (interval 0 and no cron schedule): the job it is about to send a
\* trigger to, or to receive the completion of, is an on-demand job, every
\* other job is passed over, so that it never stands at the channel of a job
\* that the cron scheduler or the interval loop drives, and a served scrape
\* has triggered and awaited every on-demand job.
C39_HandlerAddressesExactlyOnDemand ==
  \A s \in Scrapes :
    /\ \A j \in scrapes[s].trig \cup scrapes[s].done : OnDemand(jobs[j])
    /\ (scrapes[s].pc \in {"trigger", "wait"} /\ scrapes[s].i <= Len(exporter.jobs))
         => LET j == exporter.jobs[scrapes[s].i]
                addressed == IF scrapes[s].pc = "trigger"
                             THEN ~IsAsync(jobs[j]) ELSE WaitsFor(jobs[j])
            IN addressed <=> OnDemand(jobs[j])
    /\ scrapes[s].pc = "served"
         => \A j \in JobIds : OnDemand(jobs[j]) => j \in scrapes[s].trig \cap scrapes[s].done

----------------------------------------------------------------------------
(* Claims about activities that share a connection (SpecCron).             *)

\* the position of activity f in the sequence log (0: not in it)
PosIn(log, f) ==
  IF \E i \in 1..Len(log) : log[i] = f
  THEN CHOOSE i \in 1..Len(log) : log[i] = f
  ELSE 0

\* C20: for the (query, connection) pair, the cache entry is written in the
\* order in which the executions ran on the connection: an execution that
\* ran later never has its samples replaced by those of an earlier one.
C20_CacheInExecutionOrder ==
  \A i, k \in 1..Len(order.writes) :
    i < k => PosIn(order.executed, order.writes[i]) < PosIn(order.executed, order.writes[k])

----------------------------------------------------------------------------
(* Claims about one execution of a query on a connection (SpecQuery).      *)

\* the call on connection c has returned
HasReturned(c) == call[c].pc = "returned"

\* a Collect that ran after the call on c returned emitted vec for the pair
ScrapedAfterReturn(c, vec) ==
  emitted[call[c].q][c].at = "returned" => emitted[call[c].q][c].vec = vec

\* C1: whenever Run or RunIterator returns an error, the cache entry of the
\* pair is what it was before the call, and a Collect after the return emits
\* exactly that vector.
C1_ErrorKeepsCache ==
  \A c \in Conns :
    (HasReturned(c) /\ call[c].err # "") =>
      /\ metrics[call[c].q][c] = call[c].cache0
      /\ ~writing[call[c].q][c].on
      /\ ScrapedAfterReturn(c, call[c].cache0)

\* C1 witness: a RunIterator that had already converted rows into samples
\* fails on a later iterator value; the earlier samples are still cached and
\* a scrape after the failure emitted them.
C1_Witness ==
  \E c \in Conns :
    /\ HasReturned(c) /\ call[c].err = "sql"
    /\ call[c].buf # <<>> /\ call[c].cache0 # <<>> /\ call[c].buf # call[c].cache0
    /\ emitted[call[c].q][c].at = "returned"
    /\ emitted[call[c].q][c].vec = call[c].cache0

\* C2 (as claimed): what Collect emits for a pair is one whole vector that an
\* execution stored, or the initial empty one.
C2_CollectWholeVector ==
  \A qi \in QIdx, c \in Conns : emitted[qi][c].vec \in stored[qi][c]

\* C4 (as claimed): a call that returns an error after reaching SQL execution
\* leaves the failure gauge of the pair at 1 and has incremented the failure
\* counter of the query exactly once.
C4_QueryErrorMarked ==
  \A c \in Conns :
    (HasReturned(c) /\ call[c].err # "" /\ call[c].sqlReached) =>
      /\ failedScrapes[call[c].q][c] = 1
      /\ failedQueryCounter[queries[call[c].q].Name] = call[c].failed0 + 1

\* C5 (as claimed): when every statement of the call ran and at least one row
\* produced at least one sample, the call returns with the failure gauge at 0
\* and the cache entry replaced by the new samples, whatever the order of good
\* and failing rows.
C5_GoodRowClearsGauge ==
  \A c \in Conns :
    (HasReturned(c) /\ call[c].err # "sql" /\ call[c].buf # <<>>) =>
      /\ failedScrapes[call[c].q][c] = 0
      /\ metrics[call[c].q][c] = call[c].buf

\* C6: a query with allow_zero_rows whose SQL ran and produced zero rows
\* returns success with the failure gauge at 0 and the cache entry empty, and
\* a Collect after the return emits no sample for the pair.
C6_ZeroRowsAllowed ==
  \A c \in Conns :
    (/\ HasReturned(c) /\ call[c].sqlReached /\ call[c].err # "sql"
     /\ call[c].nrows = 0 /\ queries[call[c].q].AllowZeroRows) =>
      /\ call[c].err = ""
      /\ failedScrapes[call[c].q][c] = 0
      /\ metrics[call[c].q][c] = <<>>
      /\ ScrapedAfterReturn(c, <<>>)

\* C6 witness: RunIterator over two values, no rows for either, on a pair
\* that had samples cached and the gauge at 1; a scrape followed.
C6_Witness ==
  \E c \in Conns :
    /\ HasReturned(c) /\ call[c].kind = "RunIterator" /\ Len(call[c].ivs) = 2
    /\ call[c].err = "" /\ call[c].nrows = 0 /\ queries[call[c].q].AllowZeroRows
    /\ call[c].cache0 # <<>> /\ call[c].failed0 = 1
    /\ metrics[call[c].q][c] = <<>> /\ failedScrapes[call[c].q][c] = 0
    /\ emitted[call[c].q][c].at = "returned"

\* the label values that belong to a label name of query q on connection c:
\* the connection's field, a declared value column, an iterator value, or the
\* text of the row column of that name ("" when the row has no such column)
LabelDomain(q, c, name) ==
  CASE name = "driver" -> {ConnOf(c).driver}
    [] name = "host" -> {ConnOf(c).host}
    [] name = "database" -> {ConnOf(c).database}
    [] name = "user" -> {ConnOf(c).user}
    [] name = "col" -> Range(q.Values)
    [] name = Iterator.Label ->
         IteratorValues \cup {""} \cup {r.cols[name].v : r \in {x \in Rows : name \in DOMAIN x.cols}}
    [] OTHER -> {""} \cup {r.cols[name].v : r \in {x \in Rows : name \in DOMAIN x.cols}}

Coercible(v) ==
  \/ v.t = "absent"
  \/ v.t \in NumericKinds
  \/ v.t \in TextKinds /\ v.v \in DOMAIN FloatOf

\* the declared label columns of the row are text or missing
LabelsAreText(q, row) ==
  \A l \in Range(q.Labels) \ {Iterator.Label} : Lookup(row.cols, l).t \in TextKinds \cup {"absent"}

\* the declared values of q that convert in a row, in declaration order; none
\* when the row does not scan or a label column is not text
ConvertedValues(q, row) ==
  IF row.scanErr \/ ~LabelsAreText(q, row) THEN <<>>
  ELSE FilterSeq(q.Values, {v \in Range(q.Values) : ~Coercible(Lookup(row.cols, v))})

RECURSIVE ExpectedCols(_, _)
\* the col labels of the samples the rows seen by a call must have produced
ExpectedCols(q, seen) ==
  IF seen = <<>> THEN <<>>
  ELSE ConvertedValues(q, Head(seen).row) \o ExpectedCols(q, Tail(seen))

\* the col label of each sample of a vector (col is the last label)
ColsOf(vec) == [k \in 1..Len(vec) |-> vec[k].labels[Len(vec[k].labels)]]

\* rows of a call with at least one successful coercion
RowsWithCoercion(q, seen) ==
  {k \in 1..Len(seen) : ~seen[k].row.scanErr
                         /\ \E v \in Range(q.Values) : Coercible(Lookup(seen[k].row.cols, v))}

\* C9 (as claimed): after a successful execution the cached vector holds
\* |declared values| samples for each row with a successful coercion.
C9_AllValuesPerRow ==
  \A c \in Conns :
    (HasReturned(c) /\ call[c].err = "") =>
      Len(metrics[call[c].q][c]) =
        Len(queries[call[c].q].Values)
          * Cardinality(RowsWithCoercion(queries[call[c].q], call[c].rowsSeen))

\* C9 (amended): after a successful execution the cached vector holds, row by
\* row in result order, exactly one sample for each declared value that
\* converted in a row that scanned and whose label columns are text, and no
\* sample for any other value or row.
C9_ConvertedValuesPerRow ==
  \A c \in Conns :
    (HasReturned(c) /\ call[c].err = "") =>
      ColsOf(metrics[call[c].q][c]) = ExpectedCols(queries[call[c].q], call[c].rowsSeen)

\* C9 witness: a row with both values, then a row of which one value converts.
C9_Witness ==
  \E c \in Conns :
    /\ HasReturned(c) /\ call[c].err = ""
    /\ call[c].rowsSeen = <<[row |-> GoodRow, iv |-> "", i |-> 1],
                             [row |-> PartialRow, iv |-> "", i |-> 1]>>
    /\ ColsOf(metrics[call[c].q][c]) = <<"v1", "v2", "v1">>

\* the call on c is a RunIterator that returned nil
IteratorSucceeded(c) ==
  HasReturned(c) /\ call[c].kind = "RunIterator" /\ call[c].err = ""

\* the iterator label's slot of each sample of a vector (the iterator label
\* is the last declared label)
IteratorSlots(q, vec) == [k \in 1..Len(vec) |-> vec[k].labels[Len(q.Labels)]]

\* what updateMetric puts into the iterator label's slot for a row read under
\* iterator value iv: iv, or for the empty iv the row's column of that name
SlotOf(e) == IF e.iv # "" THEN e.iv ELSE Lookup(e.row.cols, Iterator.Label).v

RECURSIVE ExpectedSlots(_, _, _)
\* one slot value per sample the rows seen by a call must have produced;
\* claimed: the iterator value, else what SlotOf gives
ExpectedSlots(q, seen, claimed) ==
  IF seen = <<>> THEN <<>>
  ELSE [k \in 1..Len(ConvertedValues(q, Head(seen).row)) |->
          IF claimed THEN Head(seen).iv ELSE SlotOf(Head(seen))]
       \o ExpectedSlots(q, Tail(seen), claimed)

\* the call sent one statement per iterator value, in order, and read its
\* rows in that order, each under the value of its statement
ReadInIteratorOrder(c) ==
  LET cl == call[c] IN
  /\ cl.sent = [k \in 1..Len(cl.ivs) |-> ReplaceIterator(queries[cl.q], cl.ph, cl.ivs[k])]
  /\ \A j \in 1..Len(cl.rowsSeen) :
       /\ cl.rowsSeen[j].iv = cl.ivs[cl.rowsSeen[j].i]
       /\ j > 1 => cl.rowsSeen[j - 1].i <= cl.rowsSeen[j].i

\* C11 (as claimed): after a successful RunIterator the cache entry holds, in
\* iterator order, the samples obtained for every value, and each sample has
\* in the iterator label's slot exactly the iterator value it was read under.
C11_IteratorValueInSlot ==
  \A c \in Conns :
    IteratorSucceeded(c) =>
      /\ ReadInIteratorOrder(c)
      /\ ColsOf(metrics[call[c].q][c]) = ExpectedCols(queries[call[c].q], call[c].rowsSeen)
      /\ IteratorSlots(queries[call[c].q], metrics[call[c].q][c])
           = ExpectedSlots(queries[call[c].q], call[c].rowsSeen, TRUE)

\* C11 (amended): as claimed for every non-empty iterator value; a sample
\* read under an empty iterator value has in the slot the text of the row's
\* column named like the iterator label, empty when the row has none.
C11_NonEmptyIteratorValueInSlot ==
  \A c \in Conns :
    IteratorSucceeded(c) =>
      /\ ReadInIteratorOrder(c)
      /\ ColsOf(metrics[call[c].q][c]) = ExpectedCols(queries[call[c].q], call[c].rowsSeen)
      /\ IteratorSlots(queries[call[c].q], metrics[call[c].q][c])
           = ExpectedSlots(queries[call[c].q], call[c].rowsSeen, FALSE)

\* C11 witness: values a and "", a row with both values under a, then a row
\* with a column named like the iterator label under "".
C11_Witness ==
  \E c \in Conns :
    /\ IteratorSucceeded(c) /\ call[c].ivs = <<"a", "">>
    /\ call[c].rowsSeen = <<[row |-> GoodRow, iv |-> "a", i |-> 1],
                             [row |-> PartialRow, iv |-> "", i |-> 2]>>
    /\ IteratorSlots(queries[call[c].q], metrics[call[c].q][c]) = <<"a", "a", "z">>

\* the positions of a call in which it waits for the database: Queryx and
\* the rows.Next loop
InDatabase == {"query", "rows"}

\* C19: a scrape never waits on SQL I/O: the mutex of a query is held only
\* by a call that is in its map store, never by one that waits for the
\* database, and while no map store is in progress Collect can run to its
\* end, whatever the calls in the database do.
C19_ScrapeNeverWaitsOnSQL ==
  /\ \A qi \in QIdx : mutex[qi] # "" => call[mutex[qi]].pc = "store"
  /\ (~fatal /\ \A c \in Conns : call[c].pc # "store") => ENABLED Collect

\* a scrape has been answered while the call on the connection was waiting
\* for the database, after rows had been read
C19_Witness ==
  \E c \in Conns :
    /\ call[c].pc \in InDatabase
    /\ call[c].nrows > 0
    /\ emitted[1][c].at \in InDatabase

----------------------------------------------------------------------------
(* Claims about the runs of a job on a connection (Spec).                  *)

\* neither counter ever decreases, for any label pair
CountersOnlyIncrease ==
  [][\A k \in CounterKeys : /\ queryCounter'[k] >= queryCounter[k]
                            /\ failedQueryCounter'[k] >= failedQueryCounter[k]]_vars

\* C3 (as claimed): for every label pair (job, query) either counter carries,
\* queries_total is at least query_failures_total, and both counters only
\* ever increase.
C3_TotalAtLeastFailures ==
  /\ [](\A k \in CounterKeys : queryCounter[k] >= failedQueryCounter[k])
  /\ CountersOnlyIncrease

\* C3 (amended): for every label pair (job, query) with a query name,
\* queries_total is at least query_failures_total; the pair (job, "") counts
\* the runs abandoned before the first query in query_failures_total only,
\* its queries_total stays 0; both counters only ever increase.
C3_NamedTotalAtLeastFailures ==
  /\ [](\A k \in CounterKeys \ {""} : queryCounter[k] >= failedQueryCounter[k])
  /\ [](queryCounter[""] = 0)
  /\ CountersOnlyIncrease

\* C3 witness: one run was abandoned at the iterator SQL, and in the next
\* the query bare was attempted and failed.
C3_Witness ==
  /\ failedQueryCounter[""] = 1
  /\ queryCounter["bare"] = 1
  /\ failedQueryCounter["bare"] = 1

\* C10 (as claimed): in a run whose iterator yielded values, a query whose
\* call sent every statement successfully has sent its SQL once per iterator
\* value with the token replaced by the value if its SQL contains the token,
\* and has sent its SQL exactly once, unmodified, otherwise.
C10_IteratedIffToken ==
  \A c \in Conns, qi \in QIdx :
    LET q == queries[qi]
        ivs == iteratorValues[c]
    IN (sent[c][qi].done /\ sent[c][qi].err # "sql" /\ ivs # <<>>) =>
         IF Contains(q.Query, Token(Iterator.Placeholder))
         THEN sent[c][qi].texts = [k \in 1..Len(ivs) |->
                                     ReplaceIterator(q, Iterator.Placeholder, ivs[k])]
         ELSE sent[c][qi].texts = <<q.Query>>

\* C33: within one connection activity the queries are executed one after
\* another in declaration order: the only call in progress is that of the
\* query the loop is at, every query before it that has a descriptor has
\* been executed in this attempt, whether or not an earlier one failed, no
\* query after it has, and the count of the activity is the number of
\* executed queries that returned success.
C33_QueriesInOrderDespiteFailures ==
  \A c \in Conns :
    LET idx == runner[c].idx
        succeeded == {qi \in QIdx : sent[c][qi].done /\ sent[c][qi].err = ""}
    IN /\ call[c] # NoCall => runner[c].pc = "queries" /\ call[c].q = idx
       /\ \A qi \in QIdx :
            sent[c][qi].done <=> (qi < idx /\ ~queries[qi].desc.nil)
       /\ runner[c].updated = Cardinality(succeeded)

\* an activity has ended its query loop: a query failed, a later one
\* succeeded and was counted
C33_Witness ==
  \E c \in Conns :
    /\ runner[c].pc = "queries" /\ runner[c].idx > Len(queries)
    /\ \E qi, qj \in QIdx :
         /\ qi < qj
         /\ sent[c][qi].done /\ sent[c][qi].err # ""
         /\ sent[c][qj].done /\ sent[c][qj].err = ""
    /\ runner[c].updated >= 1

\* C37: in a job with an iterator, no SQL text sent to the database holds
\* the token {{placeholder}}: whatever the iterator returned, zero values
\* included, a query whose SQL holds the token is sent only with the token
\* replaced.
C37_NoTokenInSentSQL ==
  \A c \in Conns, qi \in QIdx :
    /\ \A k \in 1..Len(sent[c][qi].texts) :
         ~Contains(sent[c][qi].texts[k], Token(Iterator.Placeholder))
    /\ call[c].q = qi =>
         \A k \in 1..Len(call[c].sent) :
           ~Contains(call[c].sent[k], Token(Iterator.Placeholder))

----------------------------------------------------------------------------
(* Claims about the label helpers (SpecLabels).                           *)

\* the value a fixed label name stands for, on Conn1 / LabelQueryName / LabelValueName
FixedLabelValue(name) ==
  CASE name = "driver" -> Conn1.driver
    [] name = "host" -> Conn1.host
    [] name = "database" -> Conn1.database
    [] name = "user" -> Conn1.user
    [] name = "col" -> LabelValueName
    [] name = "sql_job" -> JobName
    [] name = "query" -> LabelQueryName
    [] OTHER -> "?"

\* C8 (as claimed): for every redact list, the fixed label names and the fixed
\* label values produced under it have the same length and correspond position
\* by position, for the SQL gauges and for the last-scrape-failed gauge alike.
C8_NamesMatchValues ==
  labelCall # "none" =>
    /\ Len(labelNames) = Len(labelValues)
    /\ \A i \in 1..Len(labelNames) : labelValues[i] = FixedLabelValue(labelNames[i])

----------------------------------------------------------------------------
(* Claims about connection.connect (SpecConnect).                          *)

\* C21: normalisation on connect is idempotent: whatever the number of
\* consecutive calls of connect on a record, failed or not, the record keeps
\* the driver tag and the URL it was registered with, every call derives the
\* same effective DSN, and no DSN has the form tcp://clickhouse+...
C21_NormalizationIdempotent ==
  /\ connection.driver = trace.registered.driver
  /\ connection.url = trace.registered.url
  /\ \A i \in 1..Len(trace.dsns) :
       /\ trace.dsns[i] = trace.dsns[1]
       /\ ~HasPrefix(trace.dsns[i], <<"tcp", "://", "clickhouse", "+">>)

\* C22: a record whose URL carries an IAM token is refreshed by connect
\* before it is used: no statement of a run is sent on a handle opened with
\* a token that had expired when the run began.
C22_NoStatementOnExpiredToken ==
  trace.statement.handle.token >= 0
    => trace.statement.runStart <= trace.statement.handle.token + TokenMinutes

\* C23: on a key-pair Snowflake record that holds an open handle, a call of
\* connect after the credential expiry closes the handle, opens a new one and
\* moves the expiry one hour ahead; a call before the expiry keeps the
\* handle.
C23_SnowflakeWindowRenewed ==
  [][(/\ trace.pc = "connect" /\ trace'.calls = trace.calls + 1
      /\ connection.snowflakeDSN /\ connection.conn # NilConn /\ trace'.err = "")
     => IF now > connection.tokenExpirationTime
        THEN /\ connection.conn.id \in trace'.closed
             /\ connection'.conn.id \notin {0, connection.conn.id}
             /\ connection'.tokenExpirationTime = now + Hour
        ELSE connection'.conn = connection.conn]_vars

\* C24: after startup no error ends the process: the process is running in
\* every state.
C24_NoErrorEndsTheProcess == crash = ""

\* C32: the handle a statement of the job is sent on has been limited to
\* one open connection and has had the job's startup_sql statements
\* executed on it, in listing order and once, whichever path opened it.
C32_HandleConfiguredBeforeUse ==
  trace.statement.handle # NilConn =>
    /\ trace.statement.handle.MaxOpenConns = 1
    /\ trace.statement.handle.startup = trace.StartupSQL

\* C38: after any sequence of connect calls the record holds no handle or
\* an open one: a call that returned success left a handle stored, the
\* stored handle is none of the handles connect has closed (a failed reopen
\* after the credential expiry leaves the record without a handle), and a
\* statement is sent only while such a handle is stored.
C38_StoredHandleIsOpen ==
  /\ connection.conn # NilConn => connection.conn.id \notin trace.closed
  /\ (trace.calls > 0 /\ trace.err = "" /\ crash = "") => connection.conn # NilConn
  /\ (trace.pc = "statement" /\ crash = "") => connection.conn # NilConn

\* a reopen after the credential expiry has failed: the old handle is
\* closed and the record holds none
C38_Witness ==
  /\ trace.closed # {}
  /\ trace.err = "failed to connect to the database"
  /\ connection.conn = NilConn

----------------------------------------------------------------------------
(* Claims about failed attempts and dropped queries (SpecFail).            *)

\* a step in which the activity on connection c gives up before its first
\* query: connect failed, the iterator query failed or an iterator row
\* could not be scanned
Abandons(c) == ConnectErr(c) \/ IteratorQueryxErr(c) \/ IteratorScanErr(c)

\* C25: when connect or the iterator query fails on connection C in an
\* attempt, the last-scrape-failed gauge is 1 for every query of the job on
\* C, the failure counter of the empty query name has grown by exactly one,
\* no query of the job was executed on C in the attempt, the activity ends
\* with zero successes to report, and the process goes on, so that C is
\* tried again by the next attempt.
C25_FailedAttemptMarked ==
  [][\A c \in Conns : Abandons(c) =>
       /\ \A qi \in QIdx : failedScrapes'[qi][c] = 1
       /\ failedQueryCounter'[""] = failedQueryCounter[""] + 1
       /\ \A qi \in QIdx : ~sent[c][qi].done
       /\ runner'[c].pc = "done" /\ runner'[c].updated = 0
       /\ ~fatal']_vars

\* a query that Job.Init dropped: after the lookup of its reference in the
\* shared dictionary it has no SQL
Dropped(q) == ~q.nil /\ q.Query = <<>>

----------------------------------------------------------------------------
(* Claims about Job.updateConnections (SpecRegister). *)

\* the records registered for the string at position i
ConnsFrom(i) == SelectSeq(reg.conns, LAMBDA c : c.from = i)

\* the string is one the registration rejects: it does not parse, it
\* carries both an include and an exclude list, or a service it needs
\* (database listing, inventory, token provider, mTLS setup) fails
Rejected(s, env) ==
  LET t == Text(s)
      fanOut == /\ HasPrefix(t, <<"postgres", "://">>) \/ HasPrefix(t, <<"rds-", "postgres", "://">>)
                /\ Contains(s.path, <<"include">>) \/ Contains(s.path, <<"exclude">>)
  IN \/ ~s.parses
     \/ Contains(s.path, <<"include">>) /\ Contains(s.path, <<"exclude">>)
     \/ fanOut /\ env.listing = "fail"
     \/ HasPrefix(t, <<"cloudsql-postgres">>) /\ env.inventory = "fail"
     \/ (HasPrefix(t, <<"rds-mysql">>) \/ HasPrefix(t, <<"rds-">>)) /\ env.token = "fail"
     \/ /\ Contains(s.scheme, <<"clickhouse">>)
        /\ Contains(t, <<"tls_config", "=", "spiffe">>)
        /\ env.mtls = "fail"

\* C26: when the registration has returned, each rejected connection string
\* has contributed no connection, and each acceptable string of the list,
\* before or after a rejected one, has contributed the connections it
\* yields when it is registered on its own.
C26_SkipsOnlyTheOffendingString ==
  reg.pc = "done" =>
    \A i \in 1..Len(reg.Connections) :
      LET s == reg.Connections[i] IN
      IF Rejected(s, reg.env) THEN ConnsFrom(i) = <<>>
      ELSE ConnsFrom(i) = registerString(s, reg.env, i).conns

\* the comma-separated patterns that follow word ":" in a path
ListAfter(path, word) ==
  LET k == CHOOSE k \in 1..Len(path) :
             /\ HasPrefix(SubSeq(path, k, Len(path)), <<word, ":">>)
             /\ \A m \in 1..(k - 1) : ~HasPrefix(SubSeq(path, m, Len(path)), <<word, ":">>)
  IN Split(SubSeq(path, k + 2, Len(path)), ",")

\* the databases an include (keep = TRUE) or exclude (keep = FALSE) list
\* selects: those matching at least one, respectively none, of the patterns
Selected(patterns, keep) ==
  SelectSeq(Databases, LAMBDA dbname :
              keep <=> \E k \in 1..Len(patterns) : MatchString(patterns[k], dbname))

\* C29: when the registration has returned, a postgres connection string
\* whose path carries an include list (respectively an exclude list), and
\* whose database listing succeeded, has yielded exactly one connection for
\* each listed database that matches at least one (respectively none) of
\* its comma-separated patterns, labelled with that database, and no other.
C29_OneConnectionPerSelectedDatabase ==
  reg.pc = "done" =>
    \A i \in 1..Len(reg.Connections) :
      LET s == reg.Connections[i]
          inc == Contains(s.path, <<"include", ":">>)
          exc == Contains(s.path, <<"exclude", ":">>)
          dbs == IF inc THEN Selected(ListAfter(s.path, "include"), TRUE)
                 ELSE Selected(ListAfter(s.path, "exclude"), FALSE)
      IN s.scheme = <<"postgres">> /\ s.parses /\ inc # exc /\ reg.env.listing = "ok" =>
           /\ Len(ConnsFrom(i)) = Len(dbs)
           /\ \A k \in 1..Len(dbs) : ConnsFrom(i)[k].database = dbs[k]

\* the string asks for the SPIFFE mTLS setup of a ClickHouse variant
WantsSpiffe(s) ==
  Contains(s.scheme, <<"clickhouse">>) /\ Contains(Text(s), <<"tls_config", "=", "spiffe">>)

\* the record carries the TLS configuration of configureClickHouseTLS
TLSAttached(c) ==
  ~c.tlsConfig.nil /\ c.tlsConfig.MinVersion = VersionTLS12 /\ c.tlsConfig.GetClientCertificate

\* the stored URL has no tls_config parameter and every other parameter of s
StrippedURL(c, s) ==
  /\ ~Contains(c.url, <<"tls_config">>)
  /\ \A k \in 1..Len(s.query) :
       s.query[k][1] # "tls_config" => Contains(c.url, <<s.query[k][1], "=", s.query[k][2]>>)
  /\ HasPrefix(c.url, s.scheme \o <<"://">>)

\* the mTLS setup has failed for a string that asks for it:
\* configureClickHouseTLS returns an error and no TLS configuration
SetupFailureReported(s, env) ==
  WantsSpiffe(s) /\ env.mtls = "fail" =>
    /\ configureClickHouseTLS(s, env.mtls).Error # ""
    /\ configureClickHouseTLS(s, env.mtls).TLSConfig = NilTLS

\* C30 as stated: a registered connection carries a TLS configuration
\* (minimum TLS 1.2, client-certificate callback) exactly when its string is
\* a ClickHouse variant with tls_config=spiffe, and then its stored URL has
\* lost every tls_config parameter and kept the others; every other
\* connection stores the configured string and no TLS configuration; a
\* failed mTLS setup is reported as an error without a TLS configuration.
C30_StoredURLIsConfiguredString ==
  \A k \in 1..Len(reg.conns) :
    LET c == reg.conns[k]
        s == reg.Connections[c.from]
    IN /\ ~c.tlsConfig.nil <=> WantsSpiffe(s)
       /\ IF WantsSpiffe(s) THEN TLSAttached(c) /\ StrippedURL(c, s)
          ELSE c.url = Text(s) /\ c.tlsConfig = NilTLS
       /\ SetupFailureReported(s, reg.env)

\* the stored URL of the string is derived by the registration: CloudSQL,
\* mysql, rds-mysql, rds-postgres and postgres include/exclude strings
DerivedURL(s) ==
  \/ HasPrefix(s.scheme, <<"cloudsql-postgres">>) \/ HasPrefix(s.scheme, <<"cloudsql-mysql">>)
  \/ s.scheme \in {<<"mysql">>, <<"rds-mysql">>, <<"rds-", "postgres">>}
  \/ /\ s.scheme \in {<<"postgres">>, <<"pg">>}
     /\ Contains(s.path, <<"include">>) \/ Contains(s.path, <<"exclude">>)

\* C30, amended: as C30, but the stored URL equals the configured string
\* only for the strings whose URL the registration does not derive; the
\* connections of CloudSQL, mysql, rds-mysql, rds-postgres and postgres
\* include/exclude strings store a derived URL, without a TLS configuration.
C30_StoredURLUnlessDerived ==
  /\ \A k \in 1..Len(reg.conns) :
       LET c == reg.conns[k]
           s == reg.Connections[c.from]
       IN /\ ~c.tlsConfig.nil <=> WantsSpiffe(s)
          /\ IF WantsSpiffe(s) THEN TLSAttached(c) /\ StrippedURL(c, s)
             ELSE /\ c.tlsConfig = NilTLS
                  /\ ~DerivedURL(s) => c.url = Text(s)
  /\ \A i \in 1..Len(reg.Connections) :
       /\ SetupFailureReported(reg.Connections[i], reg.env)
       /\ WantsSpiffe(reg.Connections[i]) /\ reg.env.mtls = "fail" => ConnsFrom(i) = <<>>

\* a job with a SPIFFE ClickHouse string and a string without it has
\* registered a connection for each
C30_Witness ==
  /\ reg # <<>> /\ reg.pc = "done"
  /\ \E k, m \in 1..Len(reg.conns) :
       /\ WantsSpiffe(reg.Connections[reg.conns[k].from])
       /\ Len(reg.Connections[reg.conns[k].from].query) > 2
       /\ ~WantsSpiffe(reg.Connections[reg.conns[m].from])
       /\ Contains(reg.conns[m].url, <<"tls_config">>)

----------------------------------------------------------------------------
(* Claims about the /healthz handler (SpecHealth). *)

\* C28: with the deep-check flag set, a request visits each connection
\* record at most once, by a ping when the record holds a handle and by
\* connect otherwise, visits nothing after a failed visit, and once the
\* handler has ended it has answered OK when every visit succeeded and a
\* server error with the text of the failed visit otherwise.
C28_DeepCheckAnswer ==
  healthz.dbConnectivityAsHealthCheck =>
    LET visits == healthz.visits
        ok(v) == v.err = "" /\ ~v.panic
    IN /\ \A n, m \in 1..Len(visits) :
            n # m => <<visits[n].job, visits[n].connection>>
                       # <<visits[m].job, visits[m].connection>>
       /\ \A n \in 1..Len(visits) :
            /\ n < Len(visits) => ok(visits[n])
            /\ visits[n].kind = IF visits[n].held THEN "ping" ELSE "connect"
       /\ healthz.pc \in {"answered", "panicked"} =>
            IF \A n \in 1..Len(visits) : ok(visits[n])
            THEN healthz.answer = [code |-> StatusOK, text |-> "OK"]
            ELSE healthz.answer = [code |-> StatusInternalServerError,
                                   text |-> visits[Len(visits)].err]

----------------------------------------------------------------------------
(* Claims about the accesses to the cache map (SpecQuery). *)

\* C31: no read of a query's cache map by Collect overlaps a write to the
\* same map: Collect never reads the entry of a connection whose call is
\* inside the map store (between q.Lock() and q.Unlock()), and the runtime
\* never detects a concurrent access to the map.
C31_MapAccessUnderMutex ==
  /\ \A qi \in QIdx, c \in Conns : emitted[qi][c].at # "store"
  /\ \A qi \in QIdx, c \in Conns : writing[qi][c].on => mutex[qi] = c
  /\ ~fatal

----------------------------------------------------------------------------
(* Claims about goroutines that share a connection record (SpecShared). *)

\* C34: the handle of a record is opened by at most one goroutine at a
\* time: no two calls of connect on the record hold a handle they have
\* opened and not yet stored, none holds one while the record has a handle,
\* and no handle is replaced in the record without having been closed.
C34_OneOpenerPerRecord ==
  LET openers == {a \in Goroutines : activities[a].pc = "store"} IN
  /\ Cardinality(openers) <= 1
  /\ openers # {} => connection.conn = NilConn
  /\ trace.lost = {}

----------------------------------------------------------------------------
(* Claims about the done channel of runOnce (SpecDone). *)

\* C35: in every attempt each activity sends one count on the done channel
\* and never a second one, on every path; a send never finds the channel
\* full; and when runOnce has returned it has received one count per
\* connection record, the channel is empty and every activity of the
\* attempt is past its send (it has returned, or its panic is unwinding).
C35_OneResultPerActivity ==
  /\ \A c \in DoneConns :
       /\ activities[c].sends <= 1
       /\ activities[c].pc \in {"ended", "panicking"} <=> activities[c].sends = 1
       /\ activities[c].pc \in {"return", "panic"} => Len(trace.doneChan) < trace.capacity
  /\ trace.received + Len(trace.doneChan)
       = Cardinality({c \in DoneConns : activities[c].sends = 1})
  /\ trace.pc = "idle" /\ trace.attempts > 0 =>
       /\ trace.received = Cardinality(trace.conns)
       /\ trace.doneChan = <<>>
       /\ \A c \in trace.conns : activities[c].pc \in {"ended", "panicking"}

\* runOnce has returned from an attempt on three records: one failed to
\* connect, one failed in its iterator, one ran its queries
C35_Witness ==
  /\ activities # <<>>
  /\ trace.pc = "idle" /\ trace.attempts = 2
  /\ trace.conns = DoneConns
  /\ trace.updated > 0 /\ trace.err = ""
  /\ \E c \in DoneConns : activities[c].updated = 0

----------------------------------------------------------------------------
(* Claims about the state an execution touches (SpecFrame). *)

\* the gauge of the pair (query qi, connection c)
GaugeOf(gauge, p) == gauge[SeriesOf(p[1], p[2])]

\* the pair the step has executed
Executed == <<trace'.q, trace'.c>>

\* C36 as stated: an execution of query Q on connection C changes only the
\* cache entry (Q, C) and the gauge of (C, Q); the cache entry and the
\* gauge of every other pair are unchanged.
C36_OnlyOwnEntryAndGauge ==
  [][\A p \in Pairs :
       p # Executed =>
         /\ metrics'[p] = metrics[p]
         /\ GaugeOf(failedScrapes', p) = GaugeOf(failedScrapes, p)]_vars

\* C36, amended: an execution of Q on C changes only the cache entry (Q, C)
\* and the gauge series named by the labels of C and Q; the cache entry of
\* every other pair is unchanged, and so is the gauge of every pair whose
\* labels (driver, host, database, user, sql_job, query) differ from those
\* of (C, Q).
C36_OnlyOwnEntryAndSeries ==
  [][/\ \A p \in Pairs : p # Executed => metrics'[p] = metrics[p]
     /\ \A p \in Pairs :
          SeriesOf(p[1], p[2]) # SeriesOf(trace'.q, trace'.c)
            => GaugeOf(failedScrapes', p) = GaugeOf(failedScrapes, p)]_vars

\* a failed execution has followed successful ones on other pairs, whose
\* entries and gauges are as the successes left them
C36_Witness ==
  /\ trace # <<>> /\ trace.executions = 3 /\ trace.outcome = "queryErr"
  /\ failedScrapes # <<>>
  /\ GaugeOf(failedScrapes, <<trace.q, trace.c>>) = 1
  /\ \E p1, p2 \in Pairs :
       /\ p1 # p2
       /\ SeriesOf(p1[1], p1[2]) # SeriesOf(p2[1], p2[2])
       /\ GaugeOf(failedScrapes, p1) = 0 /\ metrics[p1] # <<>>
       /\ GaugeOf(failedScrapes, p2) = 0 /\ metrics[p2] # <<>>

====
